---- MODULE Spec2Model ----
(***************************************************************************)
(* NebulaOS: schema-creation scripts, vector preparation helpers and the   *)
(* query/CRUD scripts, modelled against an external vector store and an    *)
(* external embedding service.                                             *)
(*                                                                         *)
(* The store and the embedding service are the environment.  Their         *)
(* policies (does the store reject a reference to a missing collection,    *)
(* does it report "already exists" as an error) are fixed at Init and      *)
(* their failures are injected nondeterministically, at most MaxFaults     *)
(* times.                                                                  *)
(***************************************************************************)
EXTENDS Integers, Sequences, FiniteSets, TLC

VARIABLES
    strictRefs,   \* store policy: a reference to a missing collection is rejected
    existsFatal,  \* store policy: creating an existing collection is an error
    session,      \* how the code is driven: "scripts" run from the shell, or the
                  \* quick_reference functions called as a "library"
    env,          \* the process environment: is GOOGLE_API_KEY set, is the client library installed
    schema,       \* the store's collections: name -> definition (exists = FALSE when absent)
    objects,      \* the store's records
    nextId,       \* next identifier the store hands out
    faults,       \* injected store / service failures so far
    script,       \* the program that is running ("none" when idle)
    pc,           \* its position
    rc,           \* return value of the last finished main (-1: none yet)
    conn,         \* connections the current run holds open
    run,          \* bookkeeping of the current run (see NoRun)
    runs,         \* runs started so far
    snap,         \* the store as it was when the current run started
    storeLog,     \* data calls of the current run, with the origin of their vector
    lastCall,     \* last direct call of a module-level function, with its outcome
    watched,      \* an earlier call of a prepare function, kept for comparison
    text_parts    \* the list text_parts of the last direct call of a prepare function

vars == <<strictRefs, existsFatal, session, env, schema, objects, nextId, faults, script,
          pc, rc, conn, run, runs, snap, storeLog, lastCall, watched, text_parts>>

policy == <<strictRefs, existsFatal, session>>

\* ---------------------------------------------------------------- bounds
MaxFaults == 1
MaxRuns == 2
MaxCalls == 2

\* ---------------------------------------------------------------- schema
Collections == {"Entity", "Strategy", "Insight", "Event", "Process"}

Absent == [exists |-> FALSE, vectorizer |-> "none", props |-> {}, refs |-> {}]

\* A collection left behind by an earlier version of the schema.
Stale ==
    [exists |-> TRUE, vectorizer |-> "none",
     props |-> {<<"name", "TEXT">>}, refs |-> {}]

EntityDefManual ==
    [exists |-> TRUE, vectorizer |-> "none",
     props |->
        {<<"name", "TEXT">>, <<"entity_type", "TEXT">>, <<"domain", "TEXT">>,
         <<"description", "TEXT">>, <<"notes", "TEXT">>, <<"status", "TEXT">>,
         <<"created_at", "DATE">>, <<"updated_at", "DATE">>},
     refs |->
        {}]

\* create_strategy_collection without its reference to Entity
StrategyDefManual_NoEntityRef ==
    [exists |-> TRUE, vectorizer |-> "none",
     props |->
        {<<"title", "TEXT">>, <<"content", "TEXT">>,
         <<"strategy_type", "TEXT">>, <<"domain", "TEXT">>,
         <<"time_horizon", "TEXT">>, <<"valid_from", "DATE">>,
         <<"valid_until", "DATE">>, <<"status", "TEXT">>,
         <<"superseded_by", "UUID">>, <<"created_at", "DATE">>,
         <<"updated_at", "DATE">>},
     refs |->
        {<<"relatedStrategies", "Strategy">>}]

StrategyDefManual ==
    [exists |-> TRUE, vectorizer |-> "none",
     props |->
        {<<"title", "TEXT">>, <<"content", "TEXT">>,
         <<"strategy_type", "TEXT">>, <<"domain", "TEXT">>,
         <<"time_horizon", "TEXT">>, <<"valid_from", "DATE">>,
         <<"valid_until", "DATE">>, <<"status", "TEXT">>,
         <<"superseded_by", "UUID">>, <<"created_at", "DATE">>,
         <<"updated_at", "DATE">>},
     refs |->
        {<<"appliesToEntities", "Entity">>, <<"relatedStrategies", "Strategy">>}]

InsightDefManual ==
    [exists |-> TRUE, vectorizer |-> "none",
     props |->
        {<<"content", "TEXT">>, <<"source_name", "TEXT">>,
         <<"source_type", "TEXT">>, <<"domain", "TEXT">>,
         <<"tags", "TEXT_ARRAY">>, <<"status", "TEXT">>,
         <<"superseded_by", "UUID">>, <<"confidence", "TEXT">>,
         <<"created_at", "DATE">>, <<"updated_at", "DATE">>},
     refs |->
        {<<"relatedStrategies", "Strategy">>, <<"relatedEntities", "Entity">>,
         <<"relatedInsights", "Insight">>}]

EventDefManual ==
    [exists |-> TRUE, vectorizer |-> "none",
     props |->
        {<<"title", "TEXT">>, <<"event_type", "TEXT">>, <<"summary", "TEXT">>,
         <<"participants", "TEXT_ARRAY">>, <<"domain", "TEXT">>,
         <<"event_date", "DATE">>, <<"outcomes", "TEXT">>,
         <<"action_items", "TEXT">>, <<"open_questions", "TEXT">>,
         <<"created_at", "DATE">>},
     refs |->
        {<<"involvesEntities", "Entity">>,
         <<"relatesToStrategies", "Strategy">>,
         <<"generatedInsights", "Insight">>}]

ProcessDefManual ==
    [exists |-> TRUE, vectorizer |-> "none",
     props |->
        {<<"title", "TEXT">>, <<"content", "TEXT">>, <<"domain", "TEXT">>,
         <<"triggers", "TEXT">>, <<"status", "TEXT">>,
         <<"superseded_by", "UUID">>, <<"created_at", "DATE">>,
         <<"updated_at", "DATE">>},
     refs |->
        {<<"appliesToEntities", "Entity">>, <<"relatedStrategies", "Strategy">>}]

EntityDefAuto ==
    [exists |-> TRUE, vectorizer |-> "text2vec-transformers",
     props |->
        {<<"name", "TEXT">>, <<"entity_type", "TEXT">>, <<"domain", "TEXT">>,
         <<"description", "TEXT">>, <<"notes", "TEXT">>, <<"status", "TEXT">>,
         <<"created_at", "DATE">>, <<"updated_at", "DATE">>},
     refs |->
        {}]

StrategyDefAuto ==
    [exists |-> TRUE, vectorizer |-> "text2vec-transformers",
     props |->
        {<<"title", "TEXT">>, <<"content", "TEXT">>,
         <<"strategy_type", "TEXT">>, <<"domain", "TEXT">>,
         <<"time_horizon", "TEXT">>, <<"valid_from", "DATE">>,
         <<"valid_until", "DATE">>, <<"status", "TEXT">>,
         <<"superseded_by", "UUID">>, <<"created_at", "DATE">>,
         <<"updated_at", "DATE">>},
     refs |->
        {<<"appliesToEntities", "Entity">>, <<"relatedStrategies", "Strategy">>}]

\* create_insight_collection without its reference to other insights
InsightDefAuto_NoSelfRef ==
    [exists |-> TRUE, vectorizer |-> "text2vec-transformers",
     props |->
        {<<"content", "TEXT">>, <<"source_name", "TEXT">>,
         <<"source_type", "TEXT">>, <<"domain", "TEXT">>,
         <<"tags", "TEXT_ARRAY">>, <<"status", "TEXT">>,
         <<"superseded_by", "UUID">>, <<"confidence", "TEXT">>,
         <<"created_at", "DATE">>, <<"updated_at", "DATE">>},
     refs |->
        {<<"relatedStrategies", "Strategy">>, <<"relatedEntities", "Entity">>}]

InsightDefAuto ==
    [exists |-> TRUE, vectorizer |-> "text2vec-transformers",
     props |->
        {<<"content", "TEXT">>, <<"source_name", "TEXT">>,
         <<"source_type", "TEXT">>, <<"domain", "TEXT">>,
         <<"tags", "TEXT_ARRAY">>, <<"status", "TEXT">>,
         <<"superseded_by", "UUID">>, <<"confidence", "TEXT">>,
         <<"created_at", "DATE">>, <<"updated_at", "DATE">>},
     refs |->
        {<<"relatedStrategies", "Strategy">>, <<"relatedEntities", "Entity">>,
         <<"relatedInsights", "Insight">>}]

EventDefAuto ==
    [exists |-> TRUE, vectorizer |-> "text2vec-transformers",
     props |->
        {<<"title", "TEXT">>, <<"event_type", "TEXT">>, <<"summary", "TEXT">>,
         <<"participants", "TEXT_ARRAY">>, <<"domain", "TEXT">>,
         <<"event_date", "DATE">>, <<"outcomes", "TEXT">>,
         <<"action_items", "TEXT">>, <<"open_questions", "TEXT">>,
         <<"created_at", "DATE">>},
     refs |->
        {<<"involvesEntities", "Entity">>,
         <<"relatesToStrategies", "Strategy">>,
         <<"generatedInsights", "Insight">>}]

ProcessDefAuto ==
    [exists |-> TRUE, vectorizer |-> "text2vec-transformers",
     props |->
        {<<"title", "TEXT">>, <<"content", "TEXT">>, <<"domain", "TEXT">>,
         <<"triggers", "TEXT">>, <<"status", "TEXT">>,
         <<"superseded_by", "UUID">>, <<"created_at", "DATE">>,
         <<"updated_at", "DATE">>},
     refs |->
        {<<"appliesToEntities", "Entity">>, <<"relatedStrategies", "Strategy">>}]

\* The definition each script submits for a collection.
CollectionDef(s, c) ==
    IF s = "create_schema"
    THEN CASE c = "Entity" -> EntityDefManual
           [] c = "Strategy" -> StrategyDefManual
           [] c = "Insight" -> InsightDefManual
           [] c = "Event" -> EventDefManual
           [] c = "Process" -> ProcessDefManual
    ELSE CASE c = "Entity" -> EntityDefAuto
           [] c = "Strategy" -> StrategyDefAuto
           [] c = "Insight" -> InsightDefAuto
           [] c = "Event" -> EventDefAuto
           [] c = "Process" -> ProcessDefAuto

SchemaScripts == {"create_schema", "create_schema_with_vectorizer"}

\* The scripts whose main connects, works inside try/finally and returns a status.
MainScripts == SchemaScripts \cup {"test_schema", "example_auto_vectorization"}

\* The store keeps, for each collection, the definition it was created
\* from: none ("absent"), one made before these scripts existed ("stale"),
\* or a script's.
\* collection.config.get(): the configuration of collection c as stored.
Config(sch, c) ==
    CASE sch[c] = "absent" -> Absent
      [] sch[c] = "stale" -> Stale
      [] OTHER -> CollectionDef(sch[c], c)

\* Collections a definition refers to.
RefTargets(def) == {r[2] : r \in def.refs}

\* client.collections.create(name=c, ...) against the store: what the call
\* does to a schema sch, given whether the store fails for its own reasons.
CreateOutcome(sch, c, s, fault) ==
    IF fault THEN "store_error"
    ELSE IF Config(sch, c).exists
         THEN IF existsFatal THEN "already_exists_error" ELSE "exists_ok"
    ELSE IF strictRefs /\ \E t \in RefTargets(CollectionDef(s, c)) \ {c} : ~Config(sch, t).exists
         THEN "missing_reference_error"
    ELSE "created"

CreateRaises(outcome) ==
    outcome \in {"store_error", "already_exists_error", "missing_reference_error"}

SchemaAfterCreate(sch, c, s, outcome) ==
    IF outcome = "created" THEN [sch EXCEPT ![c] = s] ELSE sch

\* The order in which main calls the create functions.
CreateOrder_StrategyFirst == <<"Strategy", "Entity", "Insight", "Event", "Process">>

CreateOrder == <<"Entity", "Strategy", "Insight", "Event", "Process">>

\* validate_schema: the loop over the five names.  config.get() raises for a
\* collection the store does not have (or when the store fails); the counts
\* are read and printed and take no part in the result.
prop_count(cfg) == Cardinality(cfg.props)
ref_count(cfg) == Cardinality(cfg.refs)

\* The counts printed: one line for each collection whose config.get()
\* returned, none for a collection whose call raised.
ValidationReport(sch, failing) ==
    [c \in {d \in Collections : Config(sch, d).exists /\ d \notin failing} |->
        <<prop_count(Config(sch, c)), ref_count(Config(sch, c))>>]

validate_schema(sch, failing) ==
    \A c \in Collections : Config(sch, c).exists /\ c \notin failing

\* ------------------------------------------------------------ run state
\* response.objects is empty, or no query has been made
NoObject == [uuid |-> 0]

NoRun ==
    [connected |-> FALSE, attempted |-> <<>>, created |-> <<>>,
     failedAt |-> 0, validated |-> FALSE, valid |-> FALSE,
     report |-> ValidationReport([c \in Collections |-> "absent"], {}), tested |-> FALSE, faulted |-> FALSE,
     test_uuid |-> 0, insight_uuid |-> 0, step |-> 0, ref_query |-> "not_run", key_error |-> FALSE,
     ids |-> [c \in Collections |-> 0], found |-> NoObject,
     link |-> [coll |-> "none", edges |-> {}, uuid |-> 0]]

NoCall == [fn |-> "none"]

\* ---------------------------------------------------------- store data ops
\* datetime.now(timezone.utc), the value of created_at, updated_at and the
\* other dates: the readings of the clock are not told apart.
UtcNow == "datetime.now(timezone.utc)"

NoVector == [src |-> "none", text |-> "", len |-> 0]

\* test_vector = [0.1] * 768
DummyVector == [src |-> "dummy", text |-> "", len |-> 768]

\* The vector the store keeps for a new record of collection c.
StoredVector(c, vector) ==
    IF vector # NoVector THEN vector
    ELSE IF Config(schema, c).vectorizer # "none"
         THEN [src |-> "auto", text |-> "", len |-> 768]
    ELSE NoVector

\* collection.data.insert(properties, vector, references) raises when the
\* store fails, when the collection is missing or when a reference property
\* is not declared by the collection.
InsertRaises(c, refs, fault) ==
    \/ fault
    \/ ~Config(schema, c).exists
    \/ \E r \in refs : \A d \in Config(schema, c).refs : d[1] # r[1]

NewObject(c, props, vector, refs) ==
    [id |-> nextId, coll |-> c, props |-> props,
     vector |-> StoredVector(c, vector), refs |-> refs]

\* an object of the response to a query with return_properties=["name"]
ResponseObject_NameOnly(o) ==
    [uuid |-> o.id,
     properties |-> [k \in DOMAIN o.props \cap {"name"} |-> o.props[k]]]

\* An object of a query response (response.objects[i]): the identifier of
\* the record and its properties.
ResponseObject(o) == [uuid |-> o.id, properties |-> o.props]

\* fetch_objects(filters=Filter.by_property(key).equal(value))
FetchByProperty(c, key, value) ==
    {o \in objects : o.coll = c /\ key \in DOMAIN o.props /\ o.props[key] = value}

\* near_vector / near_text: the records of the collection that carry a vector
Nearest(c) == {o \in objects : o.coll = c /\ o.vector # NoVector}

\* query.fetch_objects(..., limit=n) and query.near_vector(..., limit=n): the
\* results the store may return out of the matching records S, at most limit
\* of them; which ones is the store's choice.
Limited(S, limit) ==
    IF Cardinality(S) <= limit THEN {S}
    ELSE {T \in SUBSET S : Cardinality(T) = limit}

\* The collection a reference property of collection c points to.
RefTarget(c, prop) ==
    LET ds == {d \in Config(schema, c).refs : d[1] = prop}
    IN  IF ds = {} THEN "none" ELSE (CHOOSE d \in ds : TRUE)[2]

\* return_references=[QueryReference(link_on=prop)]: the records of the
\* target collection that the record's edges under prop point to.
Expanded(o, prop) ==
    {a \in objects :
        /\ a.coll = RefTarget(o.coll, prop)
        /\ <<prop, a.id>> \in o.refs}

\* Filter.by_ref(prop).by_id().equal(id)
FetchByRef(c, prop, id) == {o \in objects : o.coll = c /\ <<prop, id>> \in o.refs}

\* obj.properties[key] for each of the keys a script prints of the objects S
\* of a response: the subscript of a property an object was stored without
\* raises KeyError.
KeyError(S, keys) == \E o \in S : ~(keys \subseteq DOMAIN o.props)

\* near_text needs a collection the store vectorizes itself
NearTextRaises(c, fault) == fault \/ ~Config(schema, c).exists \/ Config(schema, c).vectorizer = "none"
NearVectorRaises(c, fault) == fault \/ ~Config(schema, c).exists

\* near_vector with a vector whose length differs from that of the vectors
\* the collection holds is rejected by the store.
DimensionMismatch(c, vector) ==
    \E o \in objects : o.coll = c /\ o.vector # NoVector /\ o.vector.len # vector.len

Log(s, op, c, vector) == [script |-> s, op |-> op, coll |-> c, src |-> vector.src]

\* data.insert(properties, vector, references) that returned the identifier
\* id: the call with what it passed.
LogInsert(s, c, id, props, vector, refs) ==
    [script |-> s, op |-> "insert", coll |-> c, src |-> vector.src,
     id |-> id, props |-> props, refs |-> refs]

\* Faults the environment may inject at a call.
FaultChoices == IF faults < MaxFaults THEN BOOLEAN ELSE {FALSE}

\* What the store may answer to a query: its result, an exception, or no
\* object at all.
QueryOutcomes == IF faults < MaxFaults THEN {"ok", "raises", "empty"} ELSE {"ok"}
Found(S, outcome) == IF outcome = "empty" THEN {} ELSE S
Charge(fault) == faults' = IF fault THEN faults + 1 ELSE faults

\* ------------------------------------------------- schema-creation main
StartMain(s) ==
    /\ pc \in {"idle", "done"}
    /\ runs < MaxRuns
    /\ script' = s
    /\ pc' = "connect"
    /\ rc' = -1
    /\ run' = NoRun
    /\ runs' = runs + 1
    /\ snap' = [schema |-> schema, objects |-> objects]
    /\ storeLog' = {}
    /\ lastCall' = NoCall
    /\ conn' = 0
    /\ UNCHANGED <<policy, text_parts, env, schema, objects, nextId, faults, watched>>

\* The first try block of main: connect_to_weaviate(), then
\* client.is_ready().  Its except clause returns 1 and closes nothing: a
\* connect that raised opened nothing, an is_ready() that raised leaves the
\* connection that was opened.  The outcomes: both calls return ("ok"),
\* connect_to_weaviate() raises, client.is_ready() raises.
MainConnect ==
    /\ script \in MainScripts
    /\ pc = "connect"
    /\ \E outcome \in (IF faults < MaxFaults
                       THEN {"ok", "raises", "is_ready_raises"} ELSE {"ok"}) :
        /\ Charge(outcome # "ok")
        /\ run' = [run EXCEPT !.connected = outcome = "ok",
                              !.faulted = outcome # "ok"]
        /\ conn' = IF outcome = "raises" THEN conn ELSE conn + 1
        /\ rc' = IF outcome = "ok" THEN rc ELSE 1
        /\ pc' = CASE outcome # "ok" -> "done"
                   [] script = "test_schema" -> "ts_validate"
                   [] script = "example_auto_vectorization" -> "auto_ops"
                   [] OTHER -> "create"
    /\ UNCHANGED <<policy, text_parts, env, schema, objects, nextId, script, runs, snap,
                   storeLog, lastCall, watched>>

\* Where main goes after its k-th create call: an exception leaves the try
\* block for the handler and the finally clause, the fifth success reaches
\* validate_schema.
AfterCreate_Continue(k, raised) ==
    IF k = Len(CreateOrder) THEN "validate" ELSE "create"

AfterCreate_ValidateAnyway(k, raised) ==
    IF raised \/ k = Len(CreateOrder) THEN "validate" ELSE "create"

AfterCreate(k, raised) ==
    IF raised THEN "finally"
    ELSE IF k = Len(CreateOrder) THEN "validate" ELSE "create"

\* The next create_*_collection call of main.  An exception leaves the try
\* block: the handler returns 1 and the finally clause runs.
MainCreate ==
    /\ script \in SchemaScripts
    /\ pc = "create"
    /\ \E fault \in FaultChoices :
        LET k == Len(run.attempted) + 1
            c == CreateOrder[k]
            outcome == CreateOutcome(schema, c, script, fault)
        IN  /\ Charge(fault)
            /\ schema' = SchemaAfterCreate(schema, c, script, outcome)
            /\ IF CreateRaises(outcome)
               THEN /\ run' = [run EXCEPT !.attempted = Append(@, c),
                                          !.failedAt = k,
                                          !.faulted = @ \/ fault]
                    /\ rc' = 1
               ELSE /\ run' = [run EXCEPT !.attempted = Append(@, c),
                                          !.created = Append(@, c)]
                    /\ rc' = rc
            /\ pc' = AfterCreate(k, CreateRaises(outcome))
    /\ UNCHANGED <<policy, text_parts, env, objects, nextId, script, conn, runs, snap,
                   storeLog, lastCall, watched>>

\* validate_schema(client) in main: the store may fail at the config.get()
\* of any of the five collections (failing), each failure caught inside the
\* loop, which goes on to the next collection.
MainValidate ==
    /\ script \in SchemaScripts
    /\ pc = "validate"
    /\ \E failing \in {F \in SUBSET Collections : faults + Cardinality(F) <= MaxFaults} :
        LET ok == validate_schema(schema, failing)
        IN  /\ faults' = faults + Cardinality(failing)
            /\ run' = [run EXCEPT !.validated = TRUE, !.valid = ok,
                                  !.report = ValidationReport(schema, failing),
                                  !.faulted = @ \/ failing # {}]
            /\ IF ok THEN pc' = "t1" /\ rc' = rc
                     ELSE pc' = "finally" /\ rc' = 1
    /\ UNCHANGED <<policy, text_parts, env, schema, objects, nextId, script, conn, runs, snap,
                   storeLog, lastCall, watched>>

\* finally: client.close(); then the pending return value is returned.
MainFinally ==
    /\ script \in MainScripts \cup {"example_usage"}
    /\ pc = "finally"
    /\ conn' = conn - 1
    /\ pc' = "done"
    /\ UNCHANGED <<policy, text_parts, env, schema, objects, nextId, faults, script, rc, run,
                   runs, snap, storeLog, lastCall, watched>>

\* ------------------------------------------------------ embedding helpers
\* Python dicts are functions whose domain is the set of keys present.
Has(d, f) == f \in DOMAIN d
\* d.get(f, default)
Get(d, f, default) == IF Has(d, f) THEN d[f] ELSE default
\* if d.get(f):
Truthy(d, f) == Has(d, f) /\ d[f] # ""

RECURSIVE Join(_, _)
\* sep.join(parts)
Join(parts, sep) ==
    IF parts = <<>> THEN ""
    ELSE IF Len(parts) = 1 THEN parts[1]
    ELSE parts[1] \o sep \o Join(Tail(parts), sep)

\* filter(None, parts)
FilterNone(parts) == SelectSeq(parts, LAMBDA p : p # "")

Separator == " | "

\* text_parts of prepare_entity_vector when the list outlives the call (a
\* module-level or default-argument list) instead of being created anew
EntityParts_Shared(d) ==
    text_parts
    \o (IF Truthy(d, "name") THEN <<"Entity: " \o d["name"]>> ELSE <<>>)
    \o (IF Truthy(d, "entity_type") THEN <<"Type: " \o d["entity_type"]>> ELSE <<>>)
    \o (IF Truthy(d, "description") THEN <<d["description"]>> ELSE <<>>)
    \o (IF Truthy(d, "notes") THEN <<"Notes: " \o d["notes"]>> ELSE <<>>)

\* text_parts of prepare_entity_vector: a new list, then the appends
EntityParts(d) ==
    (IF Truthy(d, "name") THEN <<"Entity: " \o d["name"]>> ELSE <<>>)
    \o (IF Truthy(d, "entity_type") THEN <<"Type: " \o d["entity_type"]>> ELSE <<>>)
    \o (IF Truthy(d, "description") THEN <<d["description"]>> ELSE <<>>)
    \o (IF Truthy(d, "notes") THEN <<"Notes: " \o d["notes"]>> ELSE <<>>)

\* text_parts of prepare_strategy_vector (title and content are subscripted)
StrategyParts(d) ==
    <<"Strategy: " \o d["title"],
      "Type: " \o Get(d, "strategy_type", "unknown"),
      d["content"]>>

\* text_parts of prepare_event_vector
EventParts(d) ==
    <<"Event: " \o Get(d, "title", "")>>
    \o (IF Truthy(d, "event_type") THEN <<"Type: " \o d["event_type"]>> ELSE <<>>)
    \o (IF Truthy(d, "summary") THEN <<d["summary"]>> ELSE <<>>)
    \o (IF Truthy(d, "outcomes") THEN <<"Outcomes: " \o d["outcomes"]>> ELSE <<>>)

\* text_parts of prepare_process_vector (title and content are subscripted)
ProcessParts(d) ==
    <<"Process: " \o d["title"], d["content"]>>
    \o (IF Truthy(d, "triggers") THEN <<"When to use: " \o d["triggers"]>> ELSE <<>>)

\* combined_text of prepare_insight_vector(insight_content, source_name)
InsightText(d) ==
    IF Truthy(d, "source_name")
    THEN d["content"] \o " | Source: " \o d["source_name"]
    ELSE d["content"]

PrepareFns ==
    {"prepare_entity_vector", "prepare_insight_vector", "prepare_strategy_vector",
     "prepare_event_vector", "prepare_process_vector"}

\* Keys a prepare function subscripts (d[key]): a missing one raises KeyError
\* before any text is built.
Subscripted(fn) ==
    CASE fn = "prepare_strategy_vector" -> {"title", "content"}
      [] fn = "prepare_process_vector" -> {"title", "content"}
      [] OTHER -> {}

\* The list text_parts each prepare function builds (prepare_insight_vector
\* builds none).
TextParts(fn, d) ==
    CASE fn = "prepare_entity_vector" -> EntityParts(d)
      [] fn = "prepare_strategy_vector" -> StrategyParts(d)
      [] fn = "prepare_event_vector" -> EventParts(d)
      [] fn = "prepare_process_vector" -> ProcessParts(d)
      [] OTHER -> <<>>

\* combined_text, from the list that was built
Combined(fn, d, parts) ==
    CASE fn = "prepare_insight_vector" -> InsightText(d)
      [] fn = "prepare_event_vector" -> Join(FilterNone(parts), Separator)
      [] OTHER -> Join(parts, Separator)

\* combined_text of each prepare function
CombinedText(fn, d) == Combined(fn, d, TextParts(fn, d))

EMBEDDING_DIM == 768

ServiceResponses == {"ok", "wrong_length", "api_error"}

\* The length of the vector the service returns.
ResponseLen(resp) == IF resp = "wrong_length" THEN EMBEDDING_DIM - 1 ELSE EMBEDDING_DIM

NoEmbedding ==
    [raised |-> "none", cause |-> "none", called |-> FALSE, sent |-> "",
     task_type |-> "none", vector |-> NoVector]

\* generate_google_embedding(text): import, key check, embed_content in
\* document mode, length check; every exception but ImportError is re-raised
\* as RuntimeError.
generate_google_embedding(text, resp) ==
    IF ~env.genai
    THEN [NoEmbedding EXCEPT !.raised = "ImportError", !.cause = "ImportError"]
    ELSE IF ~env.apiKey
    THEN [NoEmbedding EXCEPT !.raised = "RuntimeError", !.cause = "ValueError: no key"]
    ELSE IF resp = "api_error"
    THEN [NoEmbedding EXCEPT !.raised = "RuntimeError", !.cause = "api_error",
                             !.called = TRUE, !.sent = text,
                             !.task_type = "retrieval_document"]
    ELSE IF ResponseLen(resp) # EMBEDDING_DIM
    THEN [NoEmbedding EXCEPT !.raised = "RuntimeError", !.cause = "ValueError: length",
                             !.called = TRUE, !.sent = text,
                             !.task_type = "retrieval_document"]
    ELSE [NoEmbedding EXCEPT !.called = TRUE, !.sent = text,
                             !.task_type = "retrieval_document",
                             !.vector = [src |-> "retrieval_document", text |-> text,
                                         len |-> ResponseLen(resp)]]

\* generate_query_embedding(query_text): the same in query mode, without
\* the length check.
generate_query_embedding(text, resp) ==
    IF ~env.genai
    THEN [NoEmbedding EXCEPT !.raised = "ImportError", !.cause = "ImportError"]
    ELSE IF ~env.apiKey
    THEN [NoEmbedding EXCEPT !.raised = "RuntimeError", !.cause = "ValueError: no key"]
    ELSE IF resp = "api_error"
    THEN [NoEmbedding EXCEPT !.raised = "RuntimeError", !.cause = "api_error",
                             !.called = TRUE, !.sent = text,
                             !.task_type = "retrieval_query"]
    ELSE [NoEmbedding EXCEPT !.called = TRUE, !.sent = text,
                             !.task_type = "retrieval_query",
                             !.vector = [src |-> "retrieval_query", text |-> text,
                                         len |-> ResponseLen(resp)]]

\* The end of a prepare_*_vector call: combined_text is handed to
\* generate_google_embedding.
Prepared(fn, d, combined_text, resp) ==
    [fn |-> fn, input |-> d, built |-> TRUE, text |-> combined_text,
     emb |-> generate_google_embedding(combined_text, resp)]

\* A prepare_*_vector call: the text is built, then embedded.
PrepareVector(fn, d, resp) ==
    IF Subscripted(fn) \ DOMAIN d # {}
    THEN [fn |-> fn, input |-> d, built |-> FALSE, text |-> "",
          emb |-> [NoEmbedding EXCEPT !.raised = "KeyError", !.cause = "KeyError"]]
    ELSE Prepared(fn, d, CombinedText(fn, d), resp)

\* ----------------------------------------------------- example_usage.py
\* What the environment makes fail at a step: nothing, the embedding
\* service, or the store.
Failures ==
    IF faults < MaxFaults
    THEN {"none", "embed_api_error", "embed_wrong_length", "store"}
    ELSE {"none"}

Resp(f) ==
    CASE f = "embed_api_error" -> "api_error"
      [] f = "embed_wrong_length" -> "wrong_length"
      [] OTHER -> "ok"

\* The order of the example_create_* calls of main.
ExampleOrder == <<"Entity", "Insight", "Strategy", "Event", "Process">>

\* The prepare function each example calls.
ExampleFn(c) ==
    CASE c = "Entity" -> "prepare_entity_vector"
      [] c = "Insight" -> "prepare_insight_vector"
      [] c = "Strategy" -> "prepare_strategy_vector"
      [] c = "Event" -> "prepare_event_vector"
      [] c = "Process" -> "prepare_process_vector"

\* The fields of the example records that the prepare functions read (the
\* long literals of the script are abbreviated).
\* The properties each example inserts (long literals abbreviated).
ExampleProps(c) ==
    CASE c = "Entity" ->
            [name |-> "KPMG", entity_type |-> "company", domain |-> "work",
             description |-> "Big 4", notes |-> "Jean", status |-> "active",
             created_at |-> UtcNow, updated_at |-> UtcNow]
      [] c = "Insight" ->
            [content |-> "Prompt chaining", source_name |-> "Blog",
             source_type |-> "article", domain |-> "both",
             tags |-> <<"ai-agents", "prompt-engineering", "reliability">>,
             status |-> "active", confidence |-> "high",
             created_at |-> UtcNow, updated_at |-> UtcNow]
      [] c = "Strategy" ->
            [title |-> "Q1 2025 Product Priorities", content |-> "Focus",
             strategy_type |-> "priority", domain |-> "work",
             time_horizon |-> "quarterly", valid_from |-> UtcNow, status |-> "active",
             created_at |-> UtcNow, updated_at |-> UtcNow]
      [] c = "Event" ->
            [title |-> "KPMG Workshop Planning", event_type |-> "meeting",
             summary |-> "Discussed",
             participants |-> <<"Jean (KPMG Lead)", "Marie (Product)", "Alex (Technical)">>,
             domain |-> "work", event_date |-> UtcNow, outcomes |-> "Agreed",
             action_items |-> "1. Draft agenda", open_questions |-> "Budget?",
             created_at |-> UtcNow]
      [] c = "Process" ->
            [title |-> "Stakeholder Update Cadence", content |-> "Weekly", domain |-> "work",
             triggers |-> "Every Friday EOD", status |-> "active",
             created_at |-> UtcNow, updated_at |-> UtcNow]

\* What each example passes to its prepare function: the dictionary it
\* inserts, except for the insight, whose content and source name are
\* passed as two arguments.
ExampleInput(c) ==
    IF c = "Insight"
    THEN [content |-> "Prompt chaining", source_name |-> "Blog"]
    ELSE ExampleProps(c)

\* The references each example passes, from the identifiers returned so far.
ExampleRefs(c, ids) ==
    CASE c = "Entity" -> {}
      [] c = "Insight" -> {<<"relatedEntities", ids["Entity"]>>}
      [] c = "Strategy" -> {<<"appliesToEntities", ids["Entity"]>>}
      [] c = "Event" ->
            {<<"involvesEntities", ids["Entity"]>>,
             <<"generatedInsights", ids["Insight"]>>,
             <<"relatesToStrategies", ids["Strategy"]>>}
      [] c = "Process" ->
            {<<"appliesToEntities", ids["Entity"]>>,
             <<"relatedStrategies", ids["Strategy"]>>}

\* The embedding behind the vector an example step passes to the store.
ExampleEmbedding(c, resp) == PrepareVector(ExampleFn(c), ExampleInput(c), resp).emb

SearchEmbedding_DocumentMode(text, resp) == generate_google_embedding(text, resp)

\* example_semantic_search / semantic_search: the query is embedded with
\* generate_query_embedding.
SearchEmbedding(text, resp) == generate_query_embedding(text, resp)

StartExample ==
    /\ pc \in {"idle", "done"}
    /\ runs < MaxRuns
    /\ script' = "example_usage"
    /\ pc' = "connect"
    /\ rc' = -1
    /\ run' = NoRun
    /\ runs' = runs + 1
    /\ snap' = [schema |-> schema, objects |-> objects]
    /\ storeLog' = {}
    /\ lastCall' = NoCall
    /\ conn' = 0
    /\ UNCHANGED <<policy, text_parts, env, schema, objects, nextId, faults, watched>>

\* weaviate.connect_to_local() is called outside the try block: if it
\* raises the script dies with a traceback (exit status 1).  Inside the try
\* block "not client.is_ready()" returns 1, an is_ready() that raises is
\* caught and returns 1, and the finally clause closes in both cases.
ExampleConnect ==
    /\ script = "example_usage"
    /\ pc = "connect"
    /\ \E outcome \in (IF faults < MaxFaults
                       THEN {"ok", "raises", "not_ready", "is_ready_raises"}
                       ELSE {"ok"}) :
        /\ Charge(outcome # "ok")
        /\ run' = [run EXCEPT !.connected = outcome # "raises",
                              !.faulted = outcome # "ok"]
        /\ conn' = IF outcome = "raises" THEN conn ELSE conn + 1
        /\ rc' = IF outcome = "ok" THEN rc ELSE 1
        /\ pc' = CASE outcome = "ok" -> "ex_create"
                   [] outcome = "raises" -> "done"
                   [] OTHER -> "finally"
    /\ UNCHANGED <<policy, text_parts, env, schema, objects, nextId, script, runs, snap,
                   storeLog, lastCall, watched>>

\* The next example_create_* call: prepare the vector, then insert.
ExampleCreate ==
    /\ script = "example_usage"
    /\ pc = "ex_create"
    /\ \E f \in Failures :
        LET k == Len(run.attempted) + 1
            c == ExampleOrder[k]
            emb == ExampleEmbedding(c, Resp(f))
            refs == ExampleRefs(c, run.ids)
        IN  /\ Charge(f # "none")
            /\ IF emb.raised # "none" \/ InsertRaises(c, refs, f = "store")
               THEN /\ run' = [run EXCEPT !.attempted = Append(@, c),
                                          !.failedAt = k,
                                          !.faulted = @ \/ f # "none"]
                    /\ rc' = 1
                    /\ pc' = "finally"
                    /\ UNCHANGED <<objects, nextId, storeLog>>
               ELSE /\ objects' = objects \cup
                          {NewObject(c, ExampleProps(c), emb.vector, refs)}
                    /\ nextId' = nextId + 1
                    /\ storeLog' = storeLog \cup
                          {LogInsert(script, c, nextId, ExampleProps(c), emb.vector, refs)}
                    /\ run' = [run EXCEPT !.attempted = Append(@, c),
                                          !.created = Append(@, c),
                                          !.ids[c] = nextId]
                    /\ rc' = rc
                    /\ pc' = IF k = Len(ExampleOrder) THEN "ex_search" ELSE "ex_create"
    /\ UNCHANGED <<policy, text_parts, env, schema, script, conn, runs, snap, lastCall, watched>>

\* example_semantic_search: embed the query, then near_vector on Insight with
\* limit=3 and relatedEntities expanded; of every object of the answer the
\* content, the source name and the confidence are printed, and the name of
\* every related entity.  A KeyError reaches main's handler like any other
\* exception.
ExampleSearch ==
    /\ script = "example_usage"
    /\ pc = "ex_search"
    /\ \E f \in Failures :
        \E results \in Limited(Nearest("Insight"), 3) :
        LET emb == SearchEmbedding("How to make AI agents more reliable?", Resp(f))
            raises == \/ NearVectorRaises("Insight", f = "store")
                      \/ DimensionMismatch("Insight", emb.vector)
            key_error ==
                /\ emb.raised = "none"
                /\ ~raises
                /\ \/ KeyError(results, {"content", "source_name", "confidence"})
                   \/ KeyError(UNION {Expanded(o, "relatedEntities") : o \in results},
                               {"name"})
        IN  /\ Charge(f # "none")
            /\ run' = [run EXCEPT !.faulted = @ \/ f # "none", !.key_error = key_error]
            /\ IF emb.raised # "none"
               THEN rc' = 1 /\ pc' = "finally" /\ storeLog' = storeLog
               ELSE /\ storeLog' = storeLog \cup
                          {Log(script, "near_vector", "Insight", emb.vector)}
                    /\ IF raises \/ key_error
                       THEN rc' = 1 /\ pc' = "finally"
                       ELSE rc' = rc /\ pc' = "ex_filter"
    /\ UNCHANGED <<policy, text_parts, env, schema, objects, nextId, script, conn, runs,
                   snap, lastCall, watched>>

\* example_filter_query (the active work entities, limit=10), then
\* example_meeting_prep(client, "KPMG"): the entity of that name (limit=1;
\* none: the function returns), the events that involve it and the active
\* strategies that apply to it (limit=5 each).  Fetches only; each prints
\* properties of the objects of its answer.
ExampleQueries ==
    /\ script = "example_usage"
    /\ pc = "ex_filter"
    /\ \E fault \in FaultChoices :
        \E work \in Limited(FetchByProperty("Entity", "domain", "work")
                               \cap FetchByProperty("Entity", "status", "active"), 10),
           entity \in Limited(FetchByProperty("Entity", "name", "KPMG"), 1) :
        LET events == UNION {FetchByRef("Event", "involvesEntities", o.id) : o \in entity}
            strategies == UNION {FetchByRef("Strategy", "appliesToEntities", o.id)
                                    \cap FetchByProperty("Strategy", "status", "active") :
                                 o \in entity}
        IN  \E event_response \in Limited(events, 5),
               strategy_response \in Limited(strategies, 5) :
            LET key_error ==
                    \/ KeyError(work, {"name", "entity_type", "description"})
                    \/ KeyError(entity, {"name", "entity_type", "description", "notes"})
                    \/ KeyError(event_response, {"title", "event_type"})
                    \/ KeyError(strategy_response, {"title", "strategy_type", "content"})
            IN  /\ Charge(fault)
                /\ run' = [run EXCEPT !.faulted = @ \/ fault,
                                      !.key_error = ~fault /\ key_error]
                /\ rc' = IF fault \/ key_error THEN 1 ELSE 0
                /\ pc' = "finally"
    /\ UNCHANGED <<policy, text_parts, env, schema, objects, nextId, script, conn, runs,
                   snap, storeLog, lastCall, watched>>

\* ------------------------------------------- embedding_helpers as a script
\* test_embedding_setup(): one document embedding, then one query
\* embedding; any exception is caught, printed, and False is returned.
\* r1, r2: what the service answers to the first and the second call.
test_embedding_setup(r1, r2) ==
    LET embedding == generate_google_embedding(
                         "This is a test sentence for embedding generation.", r1)
        query_embedding == generate_query_embedding("How to implement AI agents?", r2)
    IN  embedding.raised = "none" /\ query_embedding.raised = "none"

\* python embedding_helpers.py: the module calls test_embedding_setup() and
\* drops its result, so the interpreter exits with status 0.
EmbeddingHelpersMain ==
    /\ pc \in {"idle", "done"}
    /\ session = "scripts"
    /\ runs < MaxRuns
    /\ \E f \in Failures \ {"store"}, at \in 1..2 :
        LET r1 == IF at = 1 THEN Resp(f) ELSE "ok"
            r2 == IF at = 2 THEN Resp(f) ELSE "ok"
            ok == test_embedding_setup(r1, r2)
        IN  /\ Charge(f # "none")
            /\ run' = [NoRun EXCEPT !.tested = TRUE, !.faulted = ~ok]
            /\ lastCall' = [fn |-> "test_embedding_setup", args |-> <<>>,
                            raised |-> "none", result |-> IF ok THEN 1 ELSE 0]
    /\ script' = "embedding_helpers"
    /\ pc' = "done"
    /\ rc' = 0
    /\ runs' = runs + 1
    /\ snap' = [schema |-> schema, objects |-> objects]
    /\ storeLog' = {}
    /\ conn' = 0
    /\ UNCHANGED <<policy, text_parts, env, schema, objects, nextId, watched>>

\* --------------------------------------------------- quick_reference.py
\* Every helper opens its own connection and closes it on its last line;
\* there is no try/finally, so an exception leaves the connection open
\* (conn = 1 after the call).
MaxBatch == 2

\* entity_data of create_entity_example (long literals abbreviated): the
\* dictionary is both prepared and inserted.
QREntityProps ==
    [name |-> "Example Corp", entity_type |-> "company", domain |-> "work",
     description |-> "Example", notes |-> "Important", status |-> "active",
     created_at |-> UtcNow, updated_at |-> UtcNow]

QREntityInput == QREntityProps

\* an embedding input whose source differs from the stored source_name
QRInsightInput_OtherSource ==
    [content |-> "Your insight content here", source_name |-> "Another Source"]

\* prepare_insight_vector(content, "Source Name")
QRInsightInput == [content |-> "Your insight content here", source_name |-> "Source Name"]

QRInsightProps ==
    [content |-> "Your insight content here", source_name |-> "Source Name",
     source_type |-> "article", domain |-> "both", tags |-> <<"tag1", "tag2">>,
     status |-> "active", confidence |-> "high",
     created_at |-> UtcNow, updated_at |-> UtcNow]

\* A helper call starts when no script is running.  Calls a session may
\* make: a script session is a few runs, a library session a longer
\* sequence of helper calls.
HelperCall(fn) ==
    /\ pc \in {"idle", "done"}
    /\ runs < (IF session = "library" THEN MaxCalls ELSE MaxRuns)
    /\ runs' = runs + 1
    /\ script' = "quick_reference"
    /\ pc' = "done"
    /\ rc' = -1
    /\ run' = NoRun
    /\ snap' = [schema |-> schema, objects |-> objects]

\* connect() raising: nothing was opened, nothing else happens.
HelperConnectFails(fn) ==
    /\ lastCall' = [fn |-> fn, args |-> <<>>, raised |-> "ConnectionError", result |-> 0]
    /\ storeLog' = {}
    /\ conn' = 0
    /\ UNCHANGED <<objects, nextId>>

\* Identifiers a caller may pass for a record of collection c: an existing
\* one or one that no record has.
IdChoices(c) == {o.id : o \in {p \in objects : p.coll = c}} \cup {0}

create_entity_example ==
    /\ HelperCall("create_entity_example")
    /\ \E f \in Failures \cup (IF faults < MaxFaults THEN {"connect"} ELSE {}) :
        LET emb == PrepareVector("prepare_entity_vector", QREntityInput, Resp(f)).emb
        IN  /\ Charge(f # "none")
            /\ IF f = "connect" THEN HelperConnectFails("create_entity_example")
               ELSE IF emb.raised # "none" \/ InsertRaises("Entity", {}, f = "store")
               THEN /\ conn' = 1
                    /\ lastCall' = [fn |-> "create_entity_example", args |-> <<>>,
                                    raised |-> IF emb.raised # "none" THEN emb.raised
                                               ELSE "StoreError",
                                    result |-> 0]
                    /\ storeLog' = {}
                    /\ UNCHANGED <<objects, nextId>>
               ELSE /\ conn' = 0
                    /\ objects' = objects \cup
                          {NewObject("Entity", QREntityProps, emb.vector, {})}
                    /\ nextId' = nextId + 1
                    /\ storeLog' = {LogInsert("quick_reference", "Entity", nextId, QREntityProps,
                                                emb.vector, {})}
                    /\ lastCall' = [fn |-> "create_entity_example", args |-> <<>>, raised |-> "none",
                                    result |-> nextId]
    /\ UNCHANGED <<policy, text_parts, env, schema, watched>>

create_insight_with_refs(entity_uuid, strategy_uuid) ==
    /\ HelperCall("create_insight_with_refs")
    /\ \E f \in Failures \cup (IF faults < MaxFaults THEN {"connect"} ELSE {}) :
        LET emb == PrepareVector("prepare_insight_vector", QRInsightInput, Resp(f)).emb
            refs == {<<"relatedEntities", entity_uuid>>,
                     <<"relatedStrategies", strategy_uuid>>}
        IN  /\ Charge(f # "none")
            /\ IF f = "connect" THEN HelperConnectFails("create_insight_with_refs")
               ELSE IF emb.raised # "none" \/ InsertRaises("Insight", refs, f = "store")
               THEN /\ conn' = 1
                    /\ lastCall' = [fn |-> "create_insight_with_refs",
                                    args |-> <<entity_uuid, strategy_uuid>>,
                                    raised |-> IF emb.raised # "none" THEN emb.raised
                                               ELSE "StoreError",
                                    result |-> 0]
                    /\ storeLog' = {}
                    /\ UNCHANGED <<objects, nextId>>
               ELSE /\ conn' = 0
                    /\ objects' = objects \cup
                          {NewObject("Insight", QRInsightProps, emb.vector, refs)}
                    /\ nextId' = nextId + 1
                    /\ storeLog' = {LogInsert("quick_reference", "Insight", nextId, QRInsightProps,
                                                emb.vector, refs)}
                    /\ lastCall' = [fn |-> "create_insight_with_refs",
                                    args |-> <<entity_uuid, strategy_uuid>>, raised |-> "none",
                                    result |-> nextId]
    /\ UNCHANGED <<policy, text_parts, env, schema, watched>>

\* semantic_search(query_text, collection_name="Insight", limit=5): the result
\* is recorded as the number of records returned.
semantic_search(collection_name, limit) ==
    /\ HelperCall("semantic_search")
    /\ \E f \in Failures \cup (IF faults < MaxFaults THEN {"connect"} ELSE {}) :
        LET emb == SearchEmbedding("AI agent reliability", Resp(f))
        IN  /\ Charge(f # "none")
            /\ IF f = "connect" THEN HelperConnectFails("semantic_search")
               ELSE IF emb.raised # "none"
               THEN /\ conn' = 1
                    /\ lastCall' = [fn |-> "semantic_search", args |-> <<collection_name, limit>>, raised |-> emb.raised,
                                    result |-> 0]
                    /\ storeLog' = {}
                    /\ UNCHANGED <<objects, nextId>>
               ELSE /\ storeLog' =
                          {Log("quick_reference", "near_vector", collection_name, emb.vector)}
                    /\ IF NearVectorRaises(collection_name, f = "store")
                          \/ DimensionMismatch(collection_name, emb.vector)
                       THEN /\ conn' = 1
                            /\ lastCall' = [fn |-> "semantic_search", args |-> <<collection_name, limit>>,
                                            raised |-> "StoreError", result |-> 0]
                       ELSE /\ conn' = 0
                            /\ \E results \in Limited(Nearest(collection_name), limit) :
                                 lastCall' = [fn |-> "semantic_search",
                                              args |-> <<collection_name, limit>>,
                                              raised |-> "none",
                                              result |-> Cardinality(results)]
                    /\ UNCHANGED <<objects, nextId>>
    /\ UNCHANGED <<policy, text_parts, env, schema, watched>>

\* Lists a caller may pass to batch_insert_entities: up to MaxBatch records,
\* alternately one with a name, notes and a domain and one with a description
\* and a domain outside the vocabulary.
BatchEntities ==
    <<[name |-> "A", notes |-> "n", domain |-> "work"],
      [description |-> "d", domain |-> "galaxy"]>>

BatchInputs ==
    {[i \in 1..n |-> BatchEntities[2 - (i % 2)]] : n \in 0..MaxBatch}

\* batch.add_object(properties=entity_data, ...)
BatchProps(d) == d

\* The embedding of item i when the service fails at item failAt.
BatchEmbedding(items, i, failAt) ==
    PrepareVector("prepare_entity_vector", items[i],
                  IF i = failAt THEN "api_error" ELSE "ok").emb

\* The first item whose prepare_entity_vector raises (0: none).
FirstRaise(items, failAt) ==
    LET bad == {i \in 1..Len(items) : BatchEmbedding(items, i, failAt).raised # "none"}
    IN  IF bad = {} THEN 0 ELSE CHOOSE i \in bad : \A j \in bad : i <= j

\* a batch that leaves out the failing item and keeps every other one
BatchObjects_SkipFailed(items, n, failAt) ==
    {[id |-> nextId + i - 1, coll |-> "Entity", props |-> BatchProps(items[i]),
      vector |-> BatchEmbedding(items, i, 0).vector, refs |-> {}] :
        i \in (1..Len(items)) \ {FirstRaise(items, failAt)}}

\* The first n items as records of the store.
BatchObjects(items, n, failAt) ==
    {[id |-> nextId + i - 1, coll |-> "Entity", props |-> BatchProps(items[i]),
      vector |-> BatchEmbedding(items, i, failAt).vector, refs |-> {}] : i \in 1..n}

\* batch_insert_entities(entities_data).  When prepare_entity_vector raises
\* at item k the with-block is left by the exception: the k-1 objects
\* already handed to the batch are sent or dropped as the client decides.
batch_insert_entities(items) ==
    /\ HelperCall("batch_insert_entities")
    /\ \E failAt \in (IF faults < MaxFaults THEN 0..Len(items) ELSE {0}),
          connectFails \in FaultChoices, flushed \in BOOLEAN :
        LET k == FirstRaise(items, failAt)
            added == IF k = 0 THEN Len(items) ELSE k - 1
            kept == IF k = 0 \/ flushed THEN added ELSE 0
        IN  /\ connectFails => failAt = 0
            /\ k = 0 => flushed
            /\ Charge(failAt # 0 \/ connectFails)
            /\ IF connectFails THEN HelperConnectFails("batch_insert_entities")
               ELSE /\ objects' = objects \cup BatchObjects(items, kept, failAt)
                    /\ nextId' = nextId + added
                    /\ storeLog' =
                          {Log("quick_reference", "batch_add", "Entity", BatchEmbedding(items, i, failAt).vector) :
                              i \in 1..added}
                    /\ conn' = IF k = 0 THEN 0 ELSE 1
                    /\ lastCall' =
                         IF k = 0
                         THEN [fn |-> "batch_insert_entities", args |-> <<items>>, raised |-> "none",
                               result |-> Len(items)]
                         ELSE [fn |-> "batch_insert_entities", args |-> <<items>>,
                               raised |-> BatchEmbedding(items, k, failAt).raised,
                               at |-> k, result |-> 0]
    /\ UNCHANGED <<policy, text_parts, env, schema, watched>>

\* ------------------------------------- quick_reference.py, the other helpers
\* The store's side of update, reference_add and delete_by_id.

\* data.update(uuid, properties): the given properties replace or extend
\* those of the record; the others, the vector and the references stay.
Merge(props, changes) ==
    [k \in DOMAIN props \cup DOMAIN changes |->
        IF k \in DOMAIN changes THEN changes[k] ELSE props[k]]

InCollection(c, id) == \E o \in objects : o.coll = c /\ o.id = id

\* update and reference_add raise when the store fails, when the
\* collection is missing and when it holds no record with the identifier.
UpdateRaises(c, id, fault) ==
    fault \/ ~Config(schema, c).exists \/ ~InCollection(c, id)

\* an update that is applied to every record of the collection
Updated_WholeCollection(c, id, changes) ==
    {IF o.coll = c THEN [o EXCEPT !.props = Merge(@, changes)] ELSE o : o \in objects}

Updated(c, id, changes) ==
    {IF o.coll = c /\ o.id = id THEN [o EXCEPT !.props = Merge(@, changes)] ELSE o :
        o \in objects}

\* reference_add also raises for a property the collection does not declare
\* as a reference; the target is not looked up.
ReferenceAddRaises(c, id, prop, fault) ==
    \/ UpdateRaises(c, id, fault)
    \/ \A d \in Config(schema, c).refs : d[1] # prop

ReferenceAdded(c, id, prop, to) ==
    {IF o.coll = c /\ o.id = id THEN [o EXCEPT !.refs = @ \cup {<<prop, to>>}] ELSE o :
        o \in objects}

\* delete_by_id removes the record of the collection with the identifier,
\* if there is one, and reports a missing record by its return value.
DeleteRaises(c, fault) == fault \/ ~Config(schema, c).exists

\* a delete that also drops the edges that point at the record
Deleted_Cascade(c, id) ==
    {[o EXCEPT !.refs = {r \in @ : r[2] # id}] :
        o \in {p \in objects : ~(p.coll = c /\ p.id = id)}}

Deleted(c, id) == {o \in objects : ~(o.coll = c /\ o.id = id)}

\* an object whose referenced objects come back with their name only
\* (QueryReference(link_on=p, return_properties=["name"]))
ResponseWithReferences_NameOnly(o, edges) ==
    [uuid |-> o.id, properties |-> o.props,
     references |-> [p \in edges |-> {ResponseObject_NameOnly(a) : a \in Expanded(o, p)}]]

\* An object of the response to a query with
\* return_references=[QueryReference(link_on=p) for p in edges]: under each
\* edge, the objects the record's references resolve to.
ResponseWithReferences(o, edges) ==
    [uuid |-> o.id, properties |-> o.props,
     references |-> [p \in edges |-> {ResponseObject(a) : a \in Expanded(o, p)}]]

\* Filter.by_property(key).like("*pattern*")
Contains(text, pattern) ==
    \E i \in 1..(Len(text) - Len(pattern) + 1) :
        SubSeq(text, i, i + Len(pattern) - 1) = pattern

FetchLike(c, key, pattern) ==
    {o \in objects :
        o.coll = c /\ key \in DOMAIN o.props /\ Contains(o.props[key], pattern)}

\* Filter.by_property("tags").contains_any(tags)
FetchByTags(c, tags) ==
    {o \in objects :
        /\ o.coll = c
        /\ "tags" \in DOMAIN o.props
        /\ \E i \in 1..Len(o.props.tags), j \in 1..Len(tags) : o.props.tags[i] = tags[j]}

\* superseded_by_uuid=None
None == -1


\* The identifiers tried for a parameter that is meant to name a record of
\* collection c: those of its n oldest records, that of the oldest record
\* of another collection, and one no record has.
Oldest(S, n) == {i \in S : Cardinality({j \in S : j < i}) < n}

Known(c, n) == Oldest({o.id : o \in {p \in objects : p.coll = c}}, n)

Foreign(c) == Oldest({o.id : o \in {p \in objects : p.coll # c}}, 1)

Unknown == {0}

\* Failures of a helper that does not embed.
StoreFailures == IF faults < MaxFaults THEN {"none", "connect", "store"} ELSE {"none"}

\* How a helper call ends: its exception (or "none"), its return value and
\* whether its client.close() was reached.
HelperEnds(fn, args, raised, result) ==
    /\ lastCall' = [fn |-> fn, args |-> args, raised |-> raised, result |-> result]
    /\ conn' = IF raised \in {"none", "ConnectionError"} THEN 0 ELSE 1
    /\ storeLog' = {}

HelperFrame == UNCHANGED <<policy, text_parts, env, schema, watched>>

\* A helper that only reads: connect, queries on the collections cs, close.
ReadHelper(fn, args, cs, result) ==
    /\ HelperCall(fn)
    /\ \E f \in StoreFailures :
        /\ Charge(f # "none")
        /\ IF f = "connect" THEN HelperEnds(fn, args, "ConnectionError", 0)
           ELSE IF f = "store" \/ \E c \in cs : ~Config(schema, c).exists
                THEN HelperEnds(fn, args, "StoreError", 0)
                ELSE HelperEnds(fn, args, "none", result)
    /\ UNCHANGED <<objects, nextId>>
    /\ HelperFrame

Ids(S) == {o.id : o \in S}

\* query_by_name(name): response.objects[0] (limit=1, the store picks the
\* record), None when response.objects is empty.
query_by_name(name) ==
    \E r \in (IF FetchByProperty("Entity", "name", name) = {} THEN {NoObject}
              ELSE {ResponseObject(o) : o \in FetchByProperty("Entity", "name", name)}) :
        ReadHelper("query_by_name", <<name>>, {"Entity"}, r)

\* query_active_work_entities(): limit=100
query_active_work_entities ==
    \E results \in Limited(FetchByProperty("Entity", "domain", "work")
                            \cap FetchByProperty("Entity", "status", "active"), 100) :
        ReadHelper("query_active_work_entities", <<>>, {"Entity"}, Ids(results))

\* query_with_references(pattern): limit=10; response.objects, each insight
\* with the objects its relatedEntities and relatedStrategies references
\* resolve to.
query_with_references(pattern) ==
    \E results \in Limited(FetchLike("Insight", "content", pattern), 10) :
        ReadHelper("query_with_references", <<pattern>>, {"Insight"},
                   {ResponseWithReferences(o, {"relatedEntities", "relatedStrategies"}) :
                        o \in results})

\* get_entity_context(entity_name): None (0) when no entity has the name
\* (the connection is closed on that path too); else the entity (limit=1)
\* with the events, strategies and insights that refer to it, limit=20 each.
get_entity_context(entity_name) ==
    \E r \in (IF FetchByProperty("Entity", "name", entity_name) = {} THEN {0}
              ELSE Ids(FetchByProperty("Entity", "name", entity_name))) :
        IF r = 0
        THEN ReadHelper("get_entity_context", <<entity_name>>, {"Entity"}, 0)
        ELSE \E events \in Limited(FetchByRef("Event", "involvesEntities", r), 20),
                strategies \in Limited(FetchByRef("Strategy", "appliesToEntities", r), 20),
                insights \in Limited(FetchByRef("Insight", "relatedEntities", r), 20) :
                ReadHelper("get_entity_context", <<entity_name>>,
                           {"Entity", "Event", "Strategy", "Insight"},
                           [entity |-> r,
                            events |-> Ids(events),
                            strategies |-> Ids(strategies),
                            insights |-> Ids(insights)])

get_collection_stats ==
    ReadHelper("get_collection_stats", <<>>, Collections,
               [c \in Collections |-> Cardinality({o \in objects : o.coll = c})])

\* search_by_tags(tags, collection_name="Insight"): limit=50
search_by_tags(tags, collection_name) ==
    \E results \in Limited(FetchByTags(collection_name, tags), 50) :
        ReadHelper("search_by_tags", <<tags, collection_name>>, {collection_name},
                   Ids(results))

\* update_entity_status(entity_uuid, new_status)
update_entity_status(entity_uuid, new_status) ==
    /\ HelperCall("update_entity_status")
    /\ \E f \in StoreFailures :
        LET args == <<entity_uuid, new_status>>
        IN  /\ Charge(f # "none")
            /\ IF f = "connect"
               THEN /\ HelperEnds("update_entity_status", args, "ConnectionError", 0)
                    /\ objects' = objects
               ELSE IF UpdateRaises("Entity", entity_uuid, f = "store")
               THEN /\ HelperEnds("update_entity_status", args, "StoreError", 0)
                    /\ objects' = objects
               ELSE /\ HelperEnds("update_entity_status", args, "none", 0)
                    /\ objects' = Updated("Entity", entity_uuid,
                                          [status |-> new_status, updated_at |-> UtcNow])
    /\ UNCHANGED nextId
    /\ HelperFrame

\* add_reference(from_uuid, from_collection, to_uuid, reference_property)
add_reference(from_uuid, from_collection, to_uuid, reference_property) ==
    /\ HelperCall("add_reference")
    /\ \E f \in StoreFailures :
        LET args == <<from_uuid, from_collection, to_uuid, reference_property>>
        IN  /\ Charge(f # "none")
            /\ IF f = "connect"
               THEN /\ HelperEnds("add_reference", args, "ConnectionError", 0)
                    /\ objects' = objects
               ELSE IF ReferenceAddRaises(from_collection, from_uuid,
                                          reference_property, f = "store")
               THEN /\ HelperEnds("add_reference", args, "StoreError", 0)
                    /\ objects' = objects
               ELSE /\ HelperEnds("add_reference", args, "none", 0)
                    /\ objects' = ReferenceAdded(from_collection, from_uuid,
                                                 reference_property, to_uuid)
    /\ UNCHANGED nextId
    /\ HelperFrame

\* delete_object(collection_name, uuid)
delete_object(collection_name, uuid) ==
    /\ HelperCall("delete_object")
    /\ \E f \in StoreFailures :
        LET args == <<collection_name, uuid>>
        IN  /\ Charge(f # "none")
            /\ IF f = "connect"
               THEN /\ HelperEnds("delete_object", args, "ConnectionError", 0)
                    /\ objects' = objects
               ELSE IF DeleteRaises(collection_name, f = "store")
               THEN /\ HelperEnds("delete_object", args, "StoreError", 0)
                    /\ objects' = objects
               ELSE /\ HelperEnds("delete_object", args, "none", 0)
                    /\ objects' = Deleted(collection_name, uuid)
    /\ UNCHANGED nextId
    /\ HelperFrame

\* update data that never names a successor
archive_update_data_AlwaysArchived(superseded_by_uuid) ==
    [status |-> "archived", updated_at |-> UtcNow]

\* archive_insight(insight_uuid, superseded_by_uuid=None): the update data.
\* The code tests the argument's truth value, so that None and a falsy
\* identifier (0 among the integers that stand for uuids) both archive.
archive_update_data(superseded_by_uuid) ==
    IF superseded_by_uuid \notin {None, 0}
    THEN [status |-> "superseded", updated_at |-> UtcNow,
          superseded_by |-> superseded_by_uuid]
    ELSE [status |-> "archived", updated_at |-> UtcNow]

archive_insight(insight_uuid, superseded_by_uuid) ==
    /\ HelperCall("archive_insight")
    /\ \E f \in StoreFailures :
        LET args == <<insight_uuid, superseded_by_uuid>>
        IN  /\ Charge(f # "none")
            /\ IF f = "connect"
               THEN /\ HelperEnds("archive_insight", args, "ConnectionError", 0)
                    /\ objects' = objects
               ELSE IF UpdateRaises("Insight", insight_uuid, f = "store")
               THEN /\ HelperEnds("archive_insight", args, "StoreError", 0)
                    /\ objects' = objects
               ELSE /\ HelperEnds("archive_insight", args, "none", 0)
                    /\ objects' = Updated("Insight", insight_uuid,
                                          archive_update_data(superseded_by_uuid))
    /\ UNCHANGED nextId
    /\ HelperFrame

\* ------------------------------------------------------------- SpecStore
\* The quick_reference helpers called one after another against a store
\* that create_schema.py has set up, and that is empty or holds the five
\* records a complete run of example_usage.main leaves behind.
ExampleIds == [c \in Collections |-> CHOOSE k \in 1..5 : ExampleOrder[k] = c]

ExampleData ==
    {[id |-> ExampleIds[c], coll |-> c, props |-> ExampleProps(c),
      vector |-> ExampleEmbedding(c, "ok").vector,
      refs |-> ExampleRefs(c, ExampleIds)] : c \in Collections}

InitStore ==
    /\ strictRefs = TRUE
    /\ existsFatal = TRUE
    /\ session = "library"
    /\ schema = [c \in Collections |-> "create_schema"]
    /\ env = [apiKey |-> TRUE, genai |-> TRUE]
    /\ objects \in {{}, ExampleData}
    /\ nextId = Cardinality(objects) + 1
    /\ faults = 0
    /\ script = "none"
    /\ pc = "idle"
    /\ rc = -1
    /\ conn = 0
    /\ run = NoRun
    /\ runs = 0
    /\ snap = [schema |-> schema, objects |-> objects]
    /\ storeLog = {}
    /\ lastCall = NoCall
    /\ watched = NoCall
    /\ text_parts = <<>>

NextStore ==
    \/ create_entity_example
    \/ \E e \in Known("Entity", 1) \cup Unknown, s \in Known("Strategy", 1) \cup Unknown :
          create_insight_with_refs(e, s)
    \/ \E items \in BatchInputs : batch_insert_entities(items)
    \/ \E name \in {"Example Corp", "nobody"} : query_by_name(name)
    \/ \E c \in {"Insight", "Entity"}, limit \in {1, 5} : semantic_search(c, limit)
    \/ query_active_work_entities
    \/ \E pattern \in {"insight", "zzz"} : query_with_references(pattern)
    \/ \E name \in {"Example Corp", "nobody"} : get_entity_context(name)
    \/ \E id \in Known("Entity", 1) \cup Foreign("Entity") \cup Unknown,
          new_status \in {"archived", "bogus"} :
          update_entity_status(id, new_status)
    \/ \E from \in Known("Insight", 1) \cup Unknown,
          to \in Known("Entity", 1) \cup Unknown,
          prop \in {"relatedEntities", "undeclared"} :
          add_reference(from, "Insight", to, prop)
    \/ \E c \in {"Entity", "Insight"} :
          \E id \in Known(c, 1) \cup Foreign(c) \cup Unknown : delete_object(c, id)
    \/ \E id \in Known("Insight", 2) \cup Unknown,
          s \in Known("Insight", 2) \cup Foreign("Insight") \cup Unknown \cup {None} :
          archive_insight(id, s)
    \/ get_collection_stats
    \/ \E tags \in {<<"tag1">>, <<"x", "tag2">>} : search_by_tags(tags, "Insight")

SpecStore == InitStore /\ [][NextStore]_vars

\* ------------------------------------------------- run_validation_tests
\* The vector the tests of a script pass to insert: the manual script passes
\* the dummy test_vector, the auto-vectorizing script passes none.
TestVector(s) == IF s = "create_schema" THEN DummyVector ELSE NoVector

\* The properties of the test records.
TestEntityProps(s) ==
    [name |-> "Test Company", entity_type |-> "company", domain |-> "work",
     description |-> IF s = "create_schema"
                     THEN "Test entity for validation"
                     ELSE "Test entity for validation with automatic embedding generation",
     status |-> "active", created_at |-> UtcNow, updated_at |-> UtcNow]

TestInsightProps(s) ==
    [content |-> IF s = "create_schema"
                 THEN "Test insight with cross-reference"
                 ELSE "Test insight with automatic embedding and cross-reference",
     source_type |-> "reflection", domain |-> "work", tags |-> <<"test">>,
     status |-> "active", confidence |-> "low",
     created_at |-> UtcNow, updated_at |-> UtcNow]

\* An exception inside run_validation_tests reaches main's handler.
TestRaised ==
    /\ rc' = 1
    /\ pc' = "finally"

\* "return False" inside run_validation_tests: main returns 1.
TestFailed ==
    /\ rc' = 1
    /\ pc' = "finally"

\* Test 1: every collection can be fetched.
Test1 ==
    /\ script \in SchemaScripts
    /\ pc = "t1"
    /\ run' = [run EXCEPT !.tested = TRUE]
    /\ IF \A c \in Collections : Config(schema, c).exists
       THEN pc' = "t2" /\ rc' = rc
       ELSE TestFailed
    /\ UNCHANGED <<policy, text_parts, env, schema, objects, nextId, faults, script, conn,
                   runs, snap, storeLog, lastCall, watched>>

\* Test 2: insert the test entity.
Test2 ==
    /\ script \in SchemaScripts
    /\ pc = "t2"
    /\ \E fault \in FaultChoices :
        /\ Charge(fault)
        /\ IF InsertRaises("Entity", {}, fault)
           THEN /\ TestRaised
                /\ run' = [run EXCEPT !.faulted = @ \/ fault]
                /\ UNCHANGED <<objects, nextId, storeLog>>
           ELSE /\ objects' = objects \cup
                      {NewObject("Entity", TestEntityProps(script), TestVector(script), {})}
                /\ nextId' = nextId + 1
                /\ run' = [run EXCEPT !.test_uuid = nextId]
                /\ storeLog' = storeLog \cup
                      {LogInsert(script, "Entity", nextId, TestEntityProps(script),
                                 TestVector(script), {})}
                /\ pc' = "t3"
                /\ rc' = rc
    /\ UNCHANGED <<policy, text_parts, env, schema, script, conn, runs, snap, lastCall, watched>>

\* Test 3: fetch the test entity by name (limit=1: response.objects[0] is
\* any one of the entities with the name).
Test3 ==
    /\ script \in SchemaScripts
    /\ pc = "t3"
    /\ \E outcome \in QueryOutcomes :
        LET objs == Found(FetchByProperty("Entity", "name", "Test Company"), outcome)
        IN  /\ Charge(outcome # "ok")
            /\ IF outcome = "raises"
               THEN /\ run' = [run EXCEPT !.faulted = TRUE]
                    /\ TestRaised
               ELSE IF objs # {}
               THEN /\ \E o \in objs : run' = [run EXCEPT !.found = ResponseObject(o)]
                    /\ pc' = "t4"
                    /\ rc' = rc
               ELSE /\ run' = run
                    /\ TestFailed
    /\ UNCHANGED <<policy, text_parts, env, schema, objects, nextId, script, conn, runs, snap,
                   storeLog, lastCall, watched>>

\* Test 4: vector search (near_vector with test_vector in the manual script,
\* near_text in the auto-vectorizing script), limit=1: objects[0] is any one
\* of the entities that carry a vector, and its name is printed.
Test4 ==
    /\ script \in SchemaScripts
    /\ pc = "t4"
    /\ \E outcome \in QueryOutcomes :
        LET manual == script = "create_schema"
            fault  == outcome = "raises"
            raises == IF manual THEN NearVectorRaises("Entity", fault)
                                ELSE NearTextRaises("Entity", fault)
        IN  /\ Charge(outcome # "ok")
            /\ storeLog' = storeLog \cup
                  {IF manual THEN Log(script, "near_vector", "Entity", DummyVector)
                             ELSE Log(script, "near_text", "Entity", NoVector)}
            /\ \E results \in Limited(Found(Nearest("Entity"), outcome), 1) :
                  LET key_error == ~raises /\ KeyError(results, {"name"})
                  IN  /\ run' = [run EXCEPT !.faulted = @ \/ fault,
                                            !.key_error = key_error]
                      /\ IF raises \/ key_error THEN TestRaised
                         ELSE IF results = {} THEN TestFailed
                         ELSE pc' = "t5" /\ rc' = rc
    /\ UNCHANGED <<policy, text_parts, env, schema, objects, nextId, script, conn, runs, snap,
                   lastCall, watched>>

\* Test 5: insert the test insight with a reference to the test entity.
Test5 ==
    /\ script \in SchemaScripts
    /\ pc = "t5"
    /\ \E fault \in FaultChoices :
        LET refs == {<<"relatedEntities", run.test_uuid>>}
        IN  /\ Charge(fault)
            /\ IF InsertRaises("Insight", refs, fault)
               THEN /\ TestRaised
                    /\ run' = [run EXCEPT !.faulted = @ \/ fault]
                    /\ UNCHANGED <<objects, nextId, storeLog>>
               ELSE /\ objects' = objects \cup
                          {NewObject("Insight", TestInsightProps(script), TestVector(script), refs)}
                    /\ nextId' = nextId + 1
                    /\ run' = [run EXCEPT !.insight_uuid = nextId]
                    /\ storeLog' = storeLog \cup
                          {LogInsert(script, "Insight", nextId, TestInsightProps(script),
                                     TestVector(script), refs)}
                    /\ pc' = "t6"
                    /\ rc' = rc
    /\ UNCHANGED <<policy, text_parts, env, schema, script, conn, runs, snap, lastCall, watched>>

\* What Test 6 prints for the object o that its query returned.
RefQueryResult(o) ==
    IF ResponseWithReferences(o, {"relatedEntities"}).references["relatedEntities"] # {}
    THEN "linked" ELSE "unlinked"

\* Test 6: fetch one insight whose content matches "Test insight*" with its
\* relatedEntities expanded (limit=1: any one of the matching insights), and
\* print the name of the first entity that came back under the reference.
\* Every branch only prints; the function goes on to the cleanup.
Test6 ==
    /\ script \in SchemaScripts
    /\ pc = "t6"
    /\ \E outcome \in QueryOutcomes :
        LET objs == Found(FetchLike("Insight", "content", "Test insight"), outcome)
        IN  /\ Charge(outcome # "ok")
            /\ IF outcome = "raises"
               THEN /\ run' = [run EXCEPT !.faulted = TRUE]
                    /\ TestRaised
               ELSE IF objs = {}
               THEN /\ run' = [run EXCEPT !.ref_query = "no_object"]
                    /\ pc' = "cleanup"
                    /\ rc' = rc
               ELSE \E o \in objs :
                      \E first \in Limited(Expanded(o, "relatedEntities"), 1) :
                        /\ run' = [run EXCEPT !.ref_query = RefQueryResult(o),
                                              !.key_error = KeyError(first, {"name"})]
                        /\ IF KeyError(first, {"name"})
                           THEN TestRaised
                           ELSE pc' = "cleanup" /\ rc' = rc
    /\ UNCHANGED <<policy, text_parts, env, schema, objects, nextId, script, conn, runs, snap,
                   storeLog, lastCall, watched>>

\* Cleanup: delete_by_id of the entity, then of the insight; return True.
\* failAt = 1, 2: the store fails at the first, the second delete.
TestCleanup ==
    /\ script \in SchemaScripts
    /\ pc = "cleanup"
    /\ \E failAt \in (IF faults < MaxFaults THEN 0..2 ELSE {0}) :
        /\ Charge(failAt # 0)
        /\ run' = [run EXCEPT !.faulted = @ \/ failAt # 0]
        /\ objects' =
             {o \in objects :
                /\ ~(failAt # 1 /\ o.id = run.test_uuid)
                /\ ~(failAt = 0 /\ o.id = run.insight_uuid)}
        /\ IF failAt # 0 THEN TestRaised ELSE pc' = "finally" /\ rc' = 0
    /\ UNCHANGED <<policy, text_parts, env, schema, nextId, script, conn, runs, snap,
                   storeLog, lastCall, watched>>

\* ------------------------------------------------------------ test_schema
\* The properties of the records test_basic_operations inserts.
TsProps(c) ==
    CASE c = "Entity" ->
            [name |-> "Test Company XYZ", entity_type |-> "company", domain |-> "work",
             description |-> "A test company for validation purposes",
             notes |-> "This is a test entity", status |-> "active",
             created_at |-> UtcNow, updated_at |-> UtcNow]
      [] c = "Strategy" ->
            [title |-> "Test Q1 Strategy", content |-> "Focus on testing and validation",
             strategy_type |-> "priority", domain |-> "work",
             time_horizon |-> "quarterly", status |-> "active",
             created_at |-> UtcNow, updated_at |-> UtcNow]
      [] c = "Insight" ->
            [content |-> "Testing cross-references is crucial for data integrity",
             source_name |-> "Weaviate Testing Guide", source_type |-> "article",
             domain |-> "both", tags |-> <<"testing", "data-integrity", "weaviate">>,
             status |-> "active", confidence |-> "high",
             created_at |-> UtcNow, updated_at |-> UtcNow]
      [] c = "Event" ->
            [title |-> "Test Planning Meeting", event_type |-> "meeting",
             event_date |-> UtcNow,
             summary |-> "Discussed testing strategy and validation procedures",
             participants |-> <<"Alice (Engineering)", "Bob (Product)">>,
             domain |-> "work",
             outcomes |-> "Agreed on comprehensive testing approach",
             action_items |-> "1. Write tests\n2. Run validation\n3. Document results",
             created_at |-> UtcNow]

\* references whose identifiers are not those of the records of this run
TsRefs_Unresolved(c, ids) ==
    CASE c = "Entity" -> {}
      [] c = "Strategy" -> {<<"appliesToEntities", 0>>}
      [] c = "Insight" -> {<<"relatedEntities", 0>>, <<"relatedStrategies", 0>>}
      [] c = "Event" ->
            {<<"involvesEntities", 0>>, <<"relatesToStrategies", 0>>,
             <<"generatedInsights", 0>>}

\* The references each insert of test_basic_operations passes, from the
\* identifiers the earlier inserts returned.
TsRefs(c, ids) ==
    CASE c = "Entity" -> {}
      [] c = "Strategy" -> {<<"appliesToEntities", ids["Entity"]>>}
      [] c = "Insight" ->
            {<<"relatedEntities", ids["Entity"]>>,
             <<"relatedStrategies", ids["Strategy"]>>}
      [] c = "Event" ->
            {<<"involvesEntities", ids["Entity"]>>,
             <<"relatesToStrategies", ids["Strategy"]>>,
             <<"generatedInsights", ids["Insight"]>>}

\* validate_collections, then show_collection_stats.  A collection whose
\* configuration cannot be read makes validate_collections return False and
\* main return 1; show_collection_stats prints the error of a failed count
\* and goes on.
TsValidate ==
    /\ script = "test_schema"
    /\ pc = "ts_validate"
    /\ \E f \in (IF faults < MaxFaults THEN {"none", "config", "count"} ELSE {"none"}) :
        LET all_valid == f # "config" /\ \A c \in Collections : Config(schema, c).exists
        IN  /\ Charge(f # "none")
            /\ run' = [run EXCEPT !.validated = TRUE, !.valid = all_valid,
                                  !.faulted = @ \/ f # "none"]
            /\ IF all_valid THEN pc' = "ops" /\ rc' = rc
                            ELSE pc' = "finally" /\ rc' = 1
    /\ UNCHANGED <<policy, text_parts, env, schema, objects, nextId, script, conn, runs, snap,
                   storeLog, lastCall, watched>>

\* The store calls of test_basic_operations before its cleanup, in order.
\* Of a query: its limit and the properties printed of each object of the
\* answer.  Only the first query (Test 2: by name, limit=1) returns False on
\* an empty answer; the others print what they found.
BasicOps ==
    <<[kind |-> "insert", coll |-> "Entity"],
      [kind |-> "fetch_or_fail", coll |-> "Entity", limit |-> 1,
       keys |-> {"name", "entity_type", "domain"}],
      [kind |-> "near_vector", coll |-> "Entity", limit |-> 3, keys |-> {"name"}],
      [kind |-> "insert", coll |-> "Strategy"],
      [kind |-> "insert", coll |-> "Insight"],
      [kind |-> "fetch_references", coll |-> "Insight", limit |-> 1, keys |-> {"content"}],
      [kind |-> "insert", coll |-> "Event"],
      [kind |-> "fetch_filtered", coll |-> "Entity", limit |-> 10,
       keys |-> {"name", "entity_type"}]>>

\* The records that match the query of a step: Test 2 filters by name,
\* Test 3 is a near_vector, Test 6 filters the content with
\* like("*cross-references*"), Test 8 asks for the active work entities.
BasicMatches(kind) ==
    CASE kind = "fetch_or_fail" -> FetchByProperty("Entity", "name", "Test Company XYZ")
      [] kind = "near_vector" -> Nearest("Entity")
      [] kind = "fetch_references" -> FetchLike("Insight", "content", "cross-references")
      [] kind = "fetch_filtered" ->
            FetchByProperty("Entity", "domain", "work")
                \cap FetchByProperty("Entity", "status", "active")

\* The next store call of test_basic_operations.  An exception reaches
\* main's handler (return 1), "return False" makes main return 1.  After a
\* query the properties of the answer are printed; Test 6 also prints the
\* name of every related entity and the title of every related strategy.
BasicOperation ==
    /\ script = "test_schema"
    /\ pc = "ops"
    /\ \E outcome \in QueryOutcomes :
        LET k == run.step + 1
            op == BasicOps[k]
            c == op.coll
            refs == TsRefs(c, run.ids)
            next == IF k = Len(BasicOps) THEN "ts_cleanup" ELSE "ops"
            raises == outcome = "raises" \/ ~Config(schema, c).exists
            matching == IF raises THEN {} ELSE Found(BasicMatches(op.kind), outcome)
        IN  /\ op.kind = "insert" => outcome # "empty"
            /\ Charge(outcome # "ok")
            /\ IF op.kind = "insert"
               THEN IF InsertRaises(c, refs, outcome = "raises")
                    THEN /\ run' = [run EXCEPT !.step = k, !.tested = TRUE,
                                               !.faulted = @ \/ outcome # "ok"]
                         /\ rc' = 1
                         /\ pc' = "finally"
                         /\ UNCHANGED <<objects, nextId, storeLog>>
                    ELSE /\ objects' = objects \cup
                               {NewObject(c, TsProps(c), DummyVector, refs)}
                         /\ nextId' = nextId + 1
                         /\ storeLog' = storeLog \cup
                               {LogInsert(script, c, nextId, TsProps(c), DummyVector, refs)}
                         /\ run' = [run EXCEPT !.step = k, !.tested = TRUE, !.ids[c] = nextId]
                         /\ rc' = rc
                         /\ pc' = next
               ELSE \E results \in Limited(matching, op.limit) :
                    LET key_error ==
                            \/ KeyError(results, op.keys)
                            \/ /\ op.kind = "fetch_references"
                               /\ \/ KeyError(UNION {Expanded(o, "relatedEntities") : o \in results}, {"name"})
                                  \/ KeyError(UNION {Expanded(o, "relatedStrategies") : o \in results}, {"title"})
                    IN  /\ \E found \in (IF op.kind = "fetch_or_fail" /\ results # {}
                                         THEN {ResponseObject(o) : o \in results}
                                         ELSE {run.found}) :
                             run' = [run EXCEPT !.step = k,
                                                !.faulted = @ \/ outcome = "raises",
                                                !.found = found,
                                                !.key_error = key_error]
                        /\ storeLog' = IF op.kind = "near_vector"
                                       THEN storeLog \cup
                                               {Log(script, "near_vector", c, DummyVector)}
                                       ELSE storeLog
                        /\ IF raises \/ key_error
                           THEN rc' = 1 /\ pc' = "finally"
                           ELSE IF op.kind = "fetch_or_fail" /\ results = {}
                           THEN rc' = 1 /\ pc' = "finally"
                           ELSE rc' = rc /\ pc' = next
                        /\ UNCHANGED <<objects, nextId>>
    /\ UNCHANGED <<policy, text_parts, env, schema, script, conn, runs, snap, lastCall, watched>>

\* The records that are gone after the first n deletes of the cleanup,
\* which deletes the entity, the strategy, the insight and the event.
CleanupOrder == <<"Entity", "Strategy", "Insight", "Event">>

\* Cleanup of test_basic_operations, then "return True".  failAt = k: the
\* store fails at the k-th delete.
TsCleanup ==
    /\ script = "test_schema"
    /\ pc = "ts_cleanup"
    /\ \E failAt \in (IF faults < MaxFaults THEN 0..Len(CleanupOrder) ELSE {0}) :
        LET done == IF failAt = 0 THEN Len(CleanupOrder) ELSE failAt - 1
            gone == {run.ids[CleanupOrder[i]] : i \in 1..done}
        IN  /\ Charge(failAt # 0)
            /\ run' = [run EXCEPT !.faulted = @ \/ failAt # 0]
            /\ objects' = {o \in objects : o.id \notin gone}
            /\ IF failAt # 0 THEN rc' = 1 ELSE rc' = 0
            /\ pc' = "finally"
    /\ UNCHANGED <<policy, text_parts, env, schema, nextId, script, conn, runs, snap,
                   storeLog, lastCall, watched>>

\* ----------------------------------------------- example_auto_vectorization
\* The store calls of main, in order: add_insight_example,
\* semantic_search_example, add_entity_with_insight_reference (two inserts)
\* and query_with_filters.  No insert passes a vector, every search is a
\* near_text (long literals abbreviated).  Of a search: its limit, whether it
\* filters on confidence = "high", and the properties it prints of each
\* object of the answer.
AutoOps ==
    <<[kind |-> "insert", coll |-> "Insight", linked |-> FALSE,
       props |-> [content |-> "When using Weaviate with text2vec-transformers",
                  source_name |-> "Weaviate text2vec-transformers documentation",
                  source_type |-> "article", domain |-> "work",
                  tags |-> <<"weaviate", "embedding", "vectorization", "automation">>,
                  status |-> "active", confidence |-> "high",
                  created_at |-> UtcNow, updated_at |-> UtcNow]],
      [kind |-> "near_text", coll |-> "Insight", limit |-> 3, filtered |-> FALSE,
       keys |-> {"content"}],
      [kind |-> "insert", coll |-> "Entity", linked |-> FALSE,
       props |-> [name |-> "Weaviate", entity_type |-> "product", domain |-> "work",
                  description |-> "Open-source vector database",
                  notes |-> "Supports multiple vectorizer modules",
                  status |-> "active",
                  created_at |-> UtcNow, updated_at |-> UtcNow]],
      [kind |-> "insert", coll |-> "Insight", linked |-> TRUE,
       props |-> [content |-> "Weaviate's modular architecture",
                  source_type |-> "reflection", domain |-> "work",
                  tags |-> <<"architecture", "flexibility">>,
                  status |-> "active", confidence |-> "high",
                  created_at |-> UtcNow, updated_at |-> UtcNow]],
      [kind |-> "near_text", coll |-> "Insight", limit |-> 5, filtered |-> TRUE,
       keys |-> {"content", "confidence"}]>>

\* The next store call of main.  An exception reaches main's handler
\* (return 1), the KeyError of a printed property the object lacks included;
\* after the last call main returns 0.  The example records are left in the
\* store.
AutoOperation ==
    /\ script = "example_auto_vectorization"
    /\ pc = "auto_ops"
    /\ \E fault \in FaultChoices :
        LET k == run.step + 1
            op == AutoOps[k]
            c == op.coll
            refs == IF op.kind = "insert" /\ op.linked
                    THEN {<<"relatedEntities", run.ids["Entity"]>>} ELSE {}
            failed == IF op.kind = "insert" THEN InsertRaises(c, refs, fault)
                                            ELSE NearTextRaises(c, fault)
            matching == IF op.kind = "insert" \/ failed THEN {}
                        ELSE IF op.filtered
                        THEN Nearest(c) \cap FetchByProperty(c, "confidence", "high")
                        ELSE Nearest(c)
        IN  \E results \in Limited(matching, IF op.kind = "insert" THEN 0 ELSE op.limit) :
            LET key_error == ~failed /\ op.kind # "insert" /\ KeyError(results, op.keys)
                raises == failed \/ key_error
            IN  /\ Charge(fault)
                /\ run' = [run EXCEPT !.step = k, !.tested = TRUE,
                                      !.faulted = @ \/ fault,
                                      !.key_error = key_error,
                                      !.ids = IF op.kind = "insert" /\ ~raises
                                              THEN [@ EXCEPT ![c] = nextId] ELSE @]
                /\ storeLog' = IF op.kind = "insert" /\ raises THEN storeLog
                               ELSE IF op.kind = "insert"
                               THEN storeLog \cup
                                       {LogInsert(script, c, nextId, op.props, NoVector, refs)}
                               ELSE storeLog \cup {Log(script, op.kind, c, NoVector)}
                /\ IF op.kind = "insert" /\ ~raises
                   THEN /\ objects' = objects \cup {NewObject(c, op.props, NoVector, refs)}
                        /\ nextId' = nextId + 1
                   ELSE UNCHANGED <<objects, nextId>>
                /\ rc' = IF raises THEN 1 ELSE IF k = Len(AutoOps) THEN 0 ELSE rc
                /\ pc' = IF raises \/ k = Len(AutoOps) THEN "finally" ELSE "auto_ops"
    /\ UNCHANGED <<policy, text_parts, env, schema, script, conn, runs, snap, lastCall, watched>>

\* ------------------------------------------------------------------ Spec
\* The scripts run one after another against one store, which may already
\* hold collections of an earlier schema.
\* The store before the first run: empty, or holding an Entity collection
\* of an earlier schema.  A store already set up by one of the scripts is
\* reached by running it.
InitialSchemas ==
    {[c \in Collections |-> "absent"],
     [c \in Collections |-> IF c = "Entity" THEN "stale" ELSE "absent"]}

Init ==
    /\ strictRefs \in BOOLEAN
    /\ existsFatal \in BOOLEAN
    /\ session = "scripts"
    /\ schema \in InitialSchemas
    /\ env \in [apiKey : BOOLEAN, genai : {TRUE}]
    /\ objects = {}
    /\ nextId = 1
    /\ faults = 0
    /\ script = "none"
    /\ pc = "idle"
    /\ rc = -1
    /\ conn = 0
    /\ run = NoRun
    /\ runs = 0
    /\ snap = [schema |-> schema, objects |-> {}]
    /\ storeLog = {}
    /\ lastCall = NoCall
    /\ watched = NoCall
    /\ text_parts = <<>>

Next ==
    \/ \E s \in MainScripts : StartMain(s)
    \/ MainConnect
    \/ MainCreate
    \/ MainValidate
    \/ Test1
    \/ Test2
    \/ Test3
    \/ Test4
    \/ Test5
    \/ Test6
    \/ TestCleanup
    \/ TsValidate
    \/ BasicOperation
    \/ TsCleanup
    \/ AutoOperation
    \/ MainFinally
    \/ StartExample
    \/ ExampleConnect
    \/ ExampleCreate
    \/ ExampleSearch
    \/ ExampleQueries
    \/ EmbeddingHelpersMain
    \/ create_entity_example
    \/ \E e \in IdChoices("Entity"), s \in IdChoices("Strategy") :
          create_insight_with_refs(e, s)
    \/ \E c \in {"Insight", "Entity"}, limit \in {1, 5} : semantic_search(c, limit)
    \/ \E items \in BatchInputs : batch_insert_entities(items)

Spec == Init /\ [][Next]_vars

\* ------------------------------------------------------------ SpecCreate
\* A create_*_collection function called on its own, in any order.
DirectCreate(s, c) ==
    /\ pc = "idle"
    /\ \E fault \in FaultChoices :
        LET outcome == CreateOutcome(schema, c, s, fault)
        IN  /\ Charge(fault)
            /\ schema' = SchemaAfterCreate(schema, c, s, outcome)
            /\ lastCall' = [fn |-> "create_collection", module |-> s, arg |-> c,
                            outcome |-> outcome,
                            pre |-> [d \in Collections |-> Config(schema, d).exists]]
    /\ UNCHANGED <<policy, text_parts, env, objects, nextId, script, pc, rc, conn, run, runs,
                   snap, storeLog, watched>>

NextCreate == \E s \in SchemaScripts, c \in Collections : DirectCreate(s, c)

SpecCreate == Init /\ [][NextCreate]_vars

\* -------------------------------------------------------------- SpecPrep
\* The prepare functions called with arbitrary records.
FieldValues(f) ==
    CASE f = "name" -> {"", "KPMG"}
      [] f = "entity_type" -> {"company"}
      [] f = "description" -> {"Big 4"}
      [] f = "notes" -> {"Jean"}
      [] f = "content" -> {"", "X"}
      [] f = "source_name" -> {"Blog"}
      [] f = "title" -> {"T"}
      [] f = "strategy_type" -> {"priority"}
      [] f = "event_type" -> {"meeting"}
      [] f = "summary" -> {"S"}
      [] f = "outcomes" -> {"O"}
      [] f = "triggers" -> {"Friday"}

Fields(fn) ==
    CASE fn = "prepare_entity_vector" -> {"name", "entity_type", "description", "notes"}
      [] fn = "prepare_insight_vector" -> {"content", "source_name"}
      [] fn = "prepare_strategy_vector" -> {"title", "strategy_type", "content"}
      [] fn = "prepare_event_vector" -> {"title", "event_type", "summary", "outcomes"}
      [] fn = "prepare_process_vector" -> {"title", "content", "triggers"}

\* insight_content is a positional parameter: it is always passed.
AlwaysPassed(fn) == IF fn = "prepare_insight_vector" THEN {"content"} ELSE {}

Inputs(fn) ==
    UNION {{d \in [S -> UNION {FieldValues(f) : f \in S}] :
                \A f \in S : d[f] \in FieldValues(f)} :
              S \in {T \in SUBSET Fields(fn) : AlwaysPassed(fn) \subseteq T}}

InitPrep ==
    /\ strictRefs = TRUE
    /\ existsFatal = TRUE
    /\ session = "library"
    /\ schema = [c \in Collections |-> "absent"]
    /\ env \in [apiKey : BOOLEAN, genai : {TRUE}]
    /\ objects = {}
    /\ nextId = 1
    /\ faults = 0
    /\ script = "none"
    /\ pc = "idle"
    /\ rc = -1
    /\ conn = 0
    /\ run = NoRun
    /\ runs = 0
    /\ snap = [schema |-> schema, objects |-> {}]
    /\ storeLog = {}
    /\ lastCall = NoCall
    /\ watched = NoCall
    /\ text_parts = <<>>

\* One direct call of a prepare function.  The function binds its local
\* list text_parts, joins it and hands the text to
\* generate_google_embedding; text_parts is left as the call had it (empty
\* when a subscript raised KeyError before the list was bound, and for
\* prepare_insight_vector, which has no list).  The first call is kept in
\* watched, and watched remembers whether a call with another input came
\* after it.
CallPrepare(fn, d, resp) ==
    /\ pc = "idle"
    /\ text_parts' = IF Subscripted(fn) \ DOMAIN d # {} THEN <<>> ELSE TextParts(fn, d)
    /\ lastCall' = IF Subscripted(fn) \ DOMAIN d # {}
                   THEN PrepareVector(fn, d, resp)
                   ELSE Prepared(fn, d, Combined(fn, d, text_parts'), resp)
    /\ watched' =
         IF watched.fn = "none"
         THEN [call |-> lastCall', fn |-> fn, between |-> FALSE]
         ELSE [watched EXCEPT !.between = @ \/ fn # watched.fn \/ d # watched.call.input]
    /\ UNCHANGED <<policy, env, schema, objects, nextId, faults, script, pc, rc,
                   conn, run, runs, snap, storeLog>>

NextPrep ==
    \E fn \in PrepareFns : \E d \in Inputs(fn) : \E resp \in {"ok", "api_error"} :
        CallPrepare(fn, d, resp)

SpecPrep == InitPrep /\ [][NextPrep]_vars

\* -------------------------------------------------------------- SpecRefs
\* The reference round trip of the tests (test_basic_operations Tests 1 and
\* 4 to 6, run_validation_tests Tests 2, 5 and 6): insert the records to
\* refer to, insert a record with references to them, fetch it through a
\* like filter with the references expanded.  The collection of the
\* referring record, the edges and the filter are inputs; the edges are
\* drawn from those the schema declares, and the records are those of
\* example_usage, which has one for each collection.  The store was set up
\* by one of the two schema scripts and is empty or holds the records a run
\* of example_usage left.

\* The edges of a round trip: some of those the collection declares.
EdgeChoices(c) == SUBSET {d[1] : d \in Config(schema, c).refs} \ {{}}

\* The collections the round trip needs a record of before the referring
\* record and that have none of this run yet: those its edges point to
\* (Entity, Insight, Strategy) and those the example records of these refer
\* to themselves (the example insight and the example strategy are inserted
\* with a reference to the entity).
PendingTargets ==
    LET targets == {RefTarget(run.link.coll, p) : p \in run.link.edges}
        needed == targets \cup
                    UNION {{RefTarget(t, r[1]) : r \in ExampleRefs(t, run.ids)} :
                           t \in targets}
    IN  needed \ {e.coll : e \in {f \in storeLog : f.op = "insert"}}

RefsFrame == UNCHANGED <<policy, text_parts, env, schema, script, rc, conn, runs, snap,
                         watched>>

RoundTripStart(c, edges) ==
    /\ pc = "idle"
    /\ pc' = "rt_targets"
    /\ run' = [NoRun EXCEPT !.link = [coll |-> c, edges |-> edges, uuid |-> 0]]
    /\ UNCHANGED <<objects, nextId, faults, storeLog, lastCall>>
    /\ RefsFrame

\* The next record to refer to, inserted as example_usage inserts it and in
\* its order: the entity without references, the insight with
\* references={"relatedEntities": [entity_uuid]}, the strategy with
\* references={"appliesToEntities": [entity_uuid]}.  An exception ends the
\* run.
InsertTarget(c) ==
    /\ pc = "rt_targets"
    /\ c \in PendingTargets
    /\ \A k \in 1..Len(ExampleOrder) :
          ExampleOrder[k] \in PendingTargets => ExampleIds[c] <= k
    /\ \E fault \in FaultChoices :
        LET refs == ExampleRefs(c, run.ids)
        IN  /\ Charge(fault)
            /\ IF InsertRaises(c, refs, fault)
               THEN /\ pc' = "done"
                    /\ UNCHANGED <<objects, nextId, storeLog, run>>
               ELSE /\ objects' = objects \cup
                          {NewObject(c, ExampleProps(c), ExampleEmbedding(c, "ok").vector,
                                     refs)}
                    /\ nextId' = nextId + 1
                    /\ storeLog' = storeLog \cup
                          {LogInsert("none", c, nextId, ExampleProps(c),
                                     ExampleEmbedding(c, "ok").vector, refs)}
                    /\ run' = [run EXCEPT !.ids[c] = nextId]
                    /\ pc' = IF PendingTargets = {c} THEN "rt_source" ELSE "rt_targets"
    /\ UNCHANGED lastCall
    /\ RefsFrame

\* uuid = collection.data.insert(properties, vector,
\*                               references={edge: [uuid of the target]})
InsertSource ==
    /\ pc = "rt_source"
    /\ \E fault \in FaultChoices :
        LET c == run.link.coll
            refs == {<<p, run.ids[RefTarget(c, p)]>> : p \in run.link.edges}
        IN  /\ Charge(fault)
            /\ IF InsertRaises(c, refs, fault)
               THEN /\ pc' = "done"
                    /\ UNCHANGED <<objects, nextId, storeLog, run>>
               ELSE /\ objects' = objects \cup
                          {NewObject(c, ExampleProps(c), ExampleEmbedding(c, "ok").vector,
                                     refs)}
                    /\ nextId' = nextId + 1
                    /\ storeLog' = storeLog \cup
                          {LogInsert("none", c, nextId, ExampleProps(c),
                                     ExampleEmbedding(c, "ok").vector, refs)}
                    /\ run' = [run EXCEPT !.link.uuid = nextId]
                    /\ pc' = "rt_fetch"
    /\ UNCHANGED lastCall
    /\ RefsFrame

\* The filters of the fetch: those of the tests, content like
\* "*cross-references*" and content like "Test insight*", and one that the
\* example record of the collection matches.
LikeFilters(c) ==
    {[key |-> "content", pattern |-> "cross-references"],
     [key |-> "content", pattern |-> "Test insight"],
     IF c = "Event" THEN [key |-> "title", pattern |-> "Workshop"]
     ELSE [key |-> "content", pattern |-> ExampleProps(c).content]}

\* response = collection.query.fetch_objects(
\*     filters=Filter.by_property(key).like(pattern),
\*     return_references=[QueryReference(link_on=p) for p in edges], limit=1)
\* and response.objects[0] if there is one: any record of the collection
\* that matches the filter.
FetchWithReferences ==
    /\ pc = "rt_fetch"
    /\ pc' = "done"
    /\ \E outcome \in QueryOutcomes :
        \E filter \in LikeFilters(run.link.coll) :
        LET c == run.link.coll
            edges == run.link.edges
            objs == Found(FetchLike(c, filter.key, filter.pattern), outcome)
        IN  /\ Charge(outcome # "ok")
            /\ IF outcome = "raises" \/ ~Config(schema, c).exists
               THEN lastCall' = [fn |-> "fetch_objects", args |-> <<c, edges, filter>>,
                                 raised |-> "StoreError", result |-> NoObject]
               ELSE \E r \in (IF objs = {} THEN {NoObject}
                              ELSE {ResponseWithReferences(o, edges) : o \in objs}) :
                        lastCall' = [fn |-> "fetch_objects", args |-> <<c, edges, filter>>,
                                     raised |-> "none", result |-> r]
    /\ UNCHANGED <<objects, nextId, storeLog, run>>
    /\ RefsFrame

InitRefs ==
    /\ strictRefs = TRUE
    /\ existsFatal = TRUE
    /\ session = "library"
    /\ \E s \in SchemaScripts : schema = [c \in Collections |-> s]
    /\ env = [apiKey |-> TRUE, genai |-> TRUE]
    /\ objects \in {{}, ExampleData}
    /\ nextId = Cardinality(objects) + 1
    /\ faults = 0
    /\ script = "none"
    /\ pc = "idle"
    /\ rc = -1
    /\ conn = 0
    /\ run = NoRun
    /\ runs = 0
    /\ snap = [schema |-> schema, objects |-> objects]
    /\ storeLog = {}
    /\ lastCall = NoCall
    /\ watched = NoCall
    /\ text_parts = <<>>

NextRefs ==
    \/ \E c \in Collections : \E edges \in EdgeChoices(c) : RoundTripStart(c, edges)
    \/ \E c \in Collections : InsertTarget(c)
    \/ InsertSource
    \/ FetchWithReferences

SpecRefs == InitRefs /\ [][NextRefs]_vars

\* ================================================================ claims
IsPrefix(s, t) == Len(s) <= Len(t) /\ s = SubSeq(t, 1, Len(s))

AllExist(sch) == \A c \in Collections : Config(sch, c).exists

\* C1: in every run of either schema-creation main the collections are
\* created in the order Entity, Strategy, Insight, Event, Process, and at
\* the step that creates a collection every other collection its references
\* target already exists.
C1_DependencyOrder ==
    [][ /\ script' \in SchemaScripts =>
              IsPrefix(run'.created,
                       <<"Entity", "Strategy", "Insight", "Event", "Process">>)
        /\ \A c \in Collections :
              (~Config(schema, c).exists /\ Config(schema', c).exists) =>
                  \A t \in RefTargets(Config(schema', c)) \ {c} :
                      Config(schema, t).exists
      ]_vars

\* A run against an empty store that checks no reference created all five.
C1_Witness ==
    /\ script \in SchemaScripts
    /\ ~strictRefs
    /\ \A c \in Collections : ~Config(snap.schema, c).exists
    /\ run.created = <<"Entity", "Strategy", "Insight", "Event", "Process">>
    /\ \A c \in Collections : Config(schema, c) = CollectionDef(script, c)

\* C2: against a store that rejects references to missing collections,
\* create_strategy_collection called while neither Entity nor Strategy
\* exists raises and leaves Strategy absent.
C2_StrategyBeforeEntityFails ==
    ( /\ lastCall.fn = "create_collection"
      /\ lastCall.arg = "Strategy"
      /\ strictRefs
      /\ ~lastCall.pre["Entity"]
      /\ ~lastCall.pre["Strategy"] )
    => /\ CreateRaises(lastCall.outcome)
       /\ ~Config(schema, "Strategy").exists

C2_Witness ==
    /\ lastCall.fn = "create_collection"
    /\ lastCall.arg = "Strategy"
    /\ strictRefs
    /\ ~lastCall.pre["Entity"]
    /\ lastCall.outcome = "missing_reference_error"
    /\ ~Config(schema, "Strategy").exists

\* C3: when the k-th create call of main fails, no later create is
\* attempted, the collections created by the run are the first k-1 of the
\* order, validate_schema and run_validation_tests do not run, and main
\* returns 1.
C3_AbortOnCreateFailure ==
    (script \in SchemaScripts /\ run.failedAt # 0) =>
        /\ run.attempted = SubSeq(CreateOrder, 1, run.failedAt)
        /\ run.created = SubSeq(CreateOrder, 1, run.failedAt - 1)
        /\ Len(run.created) < Len(CreateOrder)
        /\ ~run.validated
        /\ ~run.tested
        /\ pc \in {"finally", "done"}
        /\ rc = 1

C3_Witness ==
    /\ script \in SchemaScripts
    /\ pc = "done"
    /\ run.failedAt = 3
    /\ run.created = <<"Entity", "Strategy">>
    /\ rc = 1

\* C4: a second run of main, started when the five collections of the
\* script already exist, succeeds and leaves the schema as it was.
C4_Idempotent ==
    ( /\ script \in SchemaScripts
      /\ pc = "done"
      /\ run.connected
      /\ ~run.faulted
      /\ \A c \in Collections : Config(snap.schema, c) = CollectionDef(script, c) )
    => /\ rc = 0
       /\ schema = snap.schema

\* C5: when the store reports "already exists" as an error, a run started
\* with all five collections present fails at the create call for Entity,
\* makes no other create call, changes neither schema nor records and
\* returns 1.
C5_RerunFailsAtEntity ==
    ( /\ existsFatal
      /\ script \in SchemaScripts
      /\ run.connected
      /\ AllExist(snap.schema)
      /\ pc \in {"finally", "done"} )
    => /\ run.attempted = <<"Entity">>
       /\ run.failedAt = 1
       /\ run.created = <<>>
       /\ rc = 1
       /\ schema = snap.schema
       /\ objects = snap.objects

C5_Witness ==
    /\ existsFatal
    /\ script \in SchemaScripts
    /\ runs = 2
    /\ pc = "done"
    /\ \A c \in Collections : Config(snap.schema, c) = CollectionDef(script, c)
    /\ run.attempted = <<"Entity">>
    /\ rc = 1
    /\ conn = 0

\* C6: validate_schema returns True only if every collection's property
\* count and reference count read back from the store equal the counts of
\* the script's definitions.
C6_ValidationDetectsWrongSchema ==
    (script \in SchemaScripts /\ run.validated /\ run.valid) =>
        \A c \in Collections :
            /\ prop_count(Config(schema, c)) = prop_count(CollectionDef(script, c))
            /\ ref_count(Config(schema, c)) = ref_count(CollectionDef(script, c))

RequiredForVector(fn) ==
    CASE fn = "prepare_entity_vector" -> {"name"}
      [] fn = "prepare_insight_vector" -> {"content"}
      [] fn = "prepare_strategy_vector" -> {"title", "content"}
      [] fn = "prepare_event_vector" -> {"title"}
      [] fn = "prepare_process_vector" -> {"title", "content"}

\* C8: a prepare function called with a record whose required field is
\* missing or empty fails before the embedding service is called (any error
\* raised before the service call is accepted as the validation error).
C8_MissingRequiredRejected ==
    ( /\ lastCall.fn \in PrepareFns
      /\ \E f \in RequiredForVector(lastCall.fn) : ~Truthy(lastCall.input, f) )
    => /\ lastCall.emb.raised # "none"
       /\ ~lastCall.emb.called

\* The segment a present field contributes, and the field order per kind.
C9_Label(fn, f) ==
    CASE f = "name" -> "Entity: "
      [] f = "title" /\ fn = "prepare_strategy_vector" -> "Strategy: "
      [] f = "title" /\ fn = "prepare_event_vector" -> "Event: "
      [] f = "title" /\ fn = "prepare_process_vector" -> "Process: "
      [] f \in {"entity_type", "strategy_type", "event_type"} -> "Type: "
      [] f = "notes" -> "Notes: "
      [] f = "source_name" -> "Source: "
      [] f = "outcomes" -> "Outcomes: "
      [] f = "triggers" -> "When to use: "
      [] OTHER -> ""

C9_FieldOrder(fn) ==
    CASE fn = "prepare_entity_vector" -> <<"name", "entity_type", "description", "notes">>
      [] fn = "prepare_insight_vector" -> <<"content", "source_name">>
      [] fn = "prepare_strategy_vector" -> <<"title", "strategy_type", "content">>
      [] fn = "prepare_event_vector" -> <<"title", "event_type", "summary", "outcomes">>
      [] fn = "prepare_process_vector" -> <<"title", "content", "triggers">>

RECURSIVE C9_Segments(_, _, _)
C9_Segments(fn, d, fs) ==
    IF fs = <<>> THEN <<>>
    ELSE (IF Truthy(d, fs[1]) THEN <<C9_Label(fn, fs[1]) \o d[fs[1]]>> ELSE <<>>)
         \o C9_Segments(fn, d, Tail(fs))

\* C9: for a record whose required fields are present, the prepared text is
\* the ' | ' join of the segments of its present fields in the kind's field
\* order; an absent optional field adds no segment.
C9_JoinOfPresentFields ==
    ( /\ lastCall.fn \in PrepareFns
      /\ lastCall.built
      /\ \A f \in RequiredForVector(lastCall.fn) : Truthy(lastCall.input, f) )
    => lastCall.text = Join(C9_Segments(lastCall.fn, lastCall.input,
                                        C9_FieldOrder(lastCall.fn)), " | ")

\* The scripts whose vectors come from the embedding helpers, and the
\* scripts whose tests pass the constant test_vector.
EmbeddingScripts == {"example_usage", "quick_reference"}

\* C10 as stated: in every manual-vector script, each vector passed to an
\* insert or a batch add comes from a document-mode embedding call and each
\* vector passed to near_vector from a query-mode embedding call.
C10_ModesAllManualScripts ==
    \A e \in storeLog :
        e.script \in EmbeddingScripts \cup {"create_schema"} =>
            /\ e.op \in {"insert", "batch_add"} => e.src = "retrieval_document"
            /\ e.op = "near_vector" => e.src = "retrieval_query"

\* C10 (amended): in every run of example_usage and of the quick_reference
\* helpers, each vector passed to an insert or a batch add comes from a
\* document-mode embedding call and each vector passed to near_vector from
\* a query-mode embedding call; the validation tests of create_schema pass
\* the constant test_vector, which no embedding call produced, to both.
C10_ModesInEmbeddingScripts ==
    \A e \in storeLog :
        /\ e.script \in EmbeddingScripts =>
            /\ e.op \in {"insert", "batch_add"} => e.src = "retrieval_document"
            /\ e.op = "near_vector" => e.src = "retrieval_query"
        /\ (e.script = "create_schema" /\ e.op \in {"insert", "near_vector"}) =>
            e.src = "dummy"

\* A run of example_usage stored all five records and searched.
C10_Witness ==
    /\ script = "example_usage"
    /\ pc = "done"
    /\ rc = 0
    /\ \E e \in storeLog :
          e.script = "example_usage" /\ e.op = "insert" /\ e.src = "retrieval_document"
    /\ \E e \in storeLog :
          e.script = "example_usage" /\ e.op = "near_vector" /\ e.src = "retrieval_query"

\* ------------------------------------------------------------- SpecEmbed
\* batch_generate_embeddings(texts): one embed_content call per text, in
\* document mode; resps[i] is what the service answers to the i-th call.
\* The loop stops at the first call that raises; nothing checks the length
\* of what came back.
FirstApiError(resps) ==
    LET bad == {i \in 1..Len(resps) : resps[i] = "api_error"}
    IN  IF bad = {} THEN 0 ELSE CHOOSE i \in bad : \A j \in bad : i <= j

batch_generate_embeddings(texts, resps) ==
    IF ~env.genai
    THEN [raised |-> "ImportError", cause |-> "ImportError", calls |-> 0,
          vectors |-> <<>>]
    ELSE IF ~env.apiKey
    THEN [raised |-> "RuntimeError", cause |-> "ValueError: no key", calls |-> 0,
          vectors |-> <<>>]
    ELSE IF FirstApiError(resps) # 0
    THEN [raised |-> "RuntimeError", cause |-> "api_error",
          calls |-> FirstApiError(resps), vectors |-> <<>>]
    ELSE [raised |-> "none", cause |-> "none", calls |-> Len(texts),
          vectors |-> [i \in 1..Len(texts) |->
                          [src |-> "retrieval_document", text |-> texts[i],
                           len |-> ResponseLen(resps[i])]]]

\* What a caller of one of the single-text helpers gets back.
Returned(emb) ==
    [raised |-> emb.raised, cause |-> emb.cause,
     calls |-> IF emb.called THEN 1 ELSE 0,
     vectors |-> IF emb.raised = "none" THEN <<emb.vector>> ELSE <<>>]

EmbedTexts == {"a", "b"}

EmbedFns ==
    {"generate_google_embedding", "generate_query_embedding",
     "batch_generate_embeddings"}

InitEmbed ==
    /\ strictRefs = TRUE
    /\ existsFatal = TRUE
    /\ session = "library"
    /\ schema = [c \in Collections |-> "absent"]
    /\ env \in [apiKey : BOOLEAN, genai : BOOLEAN]
    /\ objects = {}
    /\ nextId = 1
    /\ faults = 0
    /\ script = "none"
    /\ pc = "idle"
    /\ rc = -1
    /\ conn = 0
    /\ run = NoRun
    /\ runs = 0
    /\ snap = [schema |-> schema, objects |-> {}]
    /\ storeLog = {}
    /\ lastCall = NoCall
    /\ watched = NoCall
    /\ text_parts = <<>>

EmbedFrame ==
    UNCHANGED <<policy, text_parts, env, schema, objects, nextId, faults, script, pc, rc,
                conn, run, runs, snap, storeLog, watched>>

CallGenerate(text, resp) ==
    /\ lastCall' = [fn |-> "generate_google_embedding", texts |-> <<text>>,
                    resps |-> <<resp>>,
                    out |-> Returned(generate_google_embedding(text, resp))]
    /\ EmbedFrame

CallGenerateQuery(text, resp) ==
    /\ lastCall' = [fn |-> "generate_query_embedding", texts |-> <<text>>,
                    resps |-> <<resp>>,
                    out |-> Returned(generate_query_embedding(text, resp))]
    /\ EmbedFrame

CallBatchGenerate(texts, resps) ==
    /\ Len(texts) = Len(resps)
    /\ lastCall' = [fn |-> "batch_generate_embeddings", texts |-> texts,
                    resps |-> resps,
                    out |-> batch_generate_embeddings(texts, resps)]
    /\ EmbedFrame

TextLists == UNION {[1..n -> EmbedTexts] : n \in 0..MaxBatch}
ResponseLists == UNION {[1..n -> ServiceResponses] : n \in 0..MaxBatch}

NextEmbed ==
    \/ \E text \in EmbedTexts, resp \in ServiceResponses : CallGenerate(text, resp)
    \/ \E text \in EmbedTexts, resp \in ServiceResponses : CallGenerateQuery(text, resp)
    \/ \E texts \in TextLists, resps \in ResponseLists : CallBatchGenerate(texts, resps)

SpecEmbed == InitEmbed /\ [][NextEmbed]_vars

\* C11: a call of generate_google_embedding, generate_query_embedding or
\* batch_generate_embeddings that returns, returns only vectors of length
\* 768: a response of any other length makes the call raise.
C11_OnlyFixedLength ==
    (lastCall.fn \in EmbedFns /\ lastCall.out.raised = "none") =>
        \A i \in 1..Len(lastCall.out.vectors) :
            lastCall.out.vectors[i].len = EMBEDDING_DIM

\* C12: in a run of a script that embeds (example_usage, the quick_reference
\* helpers) with GOOGLE_API_KEY absent, no connection to the store is ever
\* opened and no call reaches the store or the embedding service.
C12_FailsBeforeAnyNetworkCall ==
    (script \in EmbeddingScripts /\ ~env.apiKey) =>
        /\ ~run.connected
        /\ conn = 0
        /\ storeLog = {}

\* C13: after every helper call of quick_reference, however it ended
\* (normal return, embedding error, store error, entity not found), no
\* connection to the store is left open.
C13_HelperClosesConnection ==
    (script = "quick_reference" /\ pc = "done") => conn = 0

\* The record of the store with an identifier.
Record(objs, id) == CHOOSE o \in objs : o.id = id

\* The inserts of the current run that returned an identifier, each with
\* the properties and references it passed.
Inserted == {e \in storeLog : e.op = "insert"}

Field(o, key) == IF key \in DOMAIN o.props THEN o.props[key] ELSE None

\* C16: archive_insight(id, s) that returns for an insight with status
\* "active" leaves it with status "superseded" and superseded_by = s when a
\* second insight s of the store is given as successor, and with status
\* "archived" and the superseded_by it had when none is given.
C16_StatusTransition ==
    [][ (/\ lastCall'.fn = "archive_insight"
         /\ lastCall'.raised = "none"
         /\ Field(Record(objects, lastCall'.args[1]), "status") = "active") =>
            LET id     == lastCall'.args[1]
                s      == lastCall'.args[2]
                before == Record(objects, id)
                after  == Record(objects', id)
            IN  /\ after.coll = "Insight"
                /\ (s # id /\ InCollection("Insight", s)) =>
                        /\ Field(after, "status") = "superseded"
                        /\ Field(after, "superseded_by") = s
                /\ s = None =>
                        /\ Field(after, "status") = "archived"
                        /\ Field(after, "superseded_by") = Field(before, "superseded_by")
      ]_vars

\* An insight was archived in favour of a second insight of the store.
C16_Witness ==
    /\ lastCall.fn = "archive_insight"
    /\ lastCall.raised = "none"
    /\ lastCall.args[2] # lastCall.args[1]
    /\ InCollection("Insight", lastCall.args[2])
    /\ Field(Record(objects, lastCall.args[1]), "status") = "superseded"
    /\ Field(Record(objects, lastCall.args[1]), "superseded_by") = lastCall.args[2]

\* C17: no record is its own successor, and every superseded_by that is set
\* names an existing record of the collection of the record that carries it.
C17_SupersededByResolves ==
    \A o \in objects :
        Field(o, "superseded_by") # None =>
            /\ Field(o, "superseded_by") # o.id
            /\ InCollection(o.coll, Field(o, "superseded_by"))

Domains == {"personal", "work", "both"}

LifecycleStatuses == {"active", "superseded", "archived"}

LifecycleCollections == {"Strategy", "Insight", "Process"}

\* C18: every stored record has a domain among personal, work and both, and
\* every Strategy, Insight and Process record has a status among active,
\* superseded and archived.
C18_ConstrainedTags ==
    \A o \in objects :
        /\ Field(o, "domain") \in Domains
        /\ o.coll \in LifecycleCollections => Field(o, "status") \in LifecycleStatuses

\* C19: a delete_object(collection_name, uuid) call that returns removes the
\* records of the collection with that identifier and leaves every other
\* record as it was, edges included.
C19_DeleteFrame ==
    [][ (lastCall'.fn = "delete_object" /\ lastCall'.raised = "none") =>
            /\ objects' \subseteq objects
            /\ \A o \in objects :
                  o \notin objects' <=>
                      (o.coll = lastCall'.args[1] /\ o.id = lastCall'.args[2])
      ]_vars

\* A record that others point to was deleted and the edges are still there.
C19_Witness ==
    /\ lastCall.fn = "delete_object"
    /\ lastCall.raised = "none"
    /\ \A a \in objects : a.id # lastCall.args[2]
    /\ \E o \in objects : \E r \in o.refs : r[2] = lastCall.args[2]

\* C20: the vector of every stored record is the document-mode embedding of
\* the text that the prepare function of its collection builds from the
\* properties the record has now.
C20_VectorFollowsProperties ==
    \A o \in objects :
        o.vector = PrepareVector(ExampleFn(o.coll), o.props, "ok").emb.vector

\* An update helper changed a record that carries a vector.
C20_Witness ==
    /\ lastCall.fn \in {"update_entity_status", "archive_insight", "add_reference"}
    /\ lastCall.raised = "none"
    /\ \E o \in objects :
          /\ o.id = lastCall.args[1]
          /\ o.vector.text # ""
          /\ o \notin ExampleData

\* ---------------------------------------------------------------- C21
\* The programs that are run as scripts and end with an exit status.
EntryPoints == MainScripts \cup {"example_usage", "embedding_helpers"}

\* C21: a run of a script in which a store operation or an embedding call
\* failed ends with a non-zero exit status.
C21_FailureIsFatal ==
    (script \in EntryPoints /\ pc = "done" /\ run.faulted) => rc # 0

\* ---------------------------------------------------------------- C22
\* The scripts that insert records of their own: the validation tests of
\* the schema scripts, test_schema and example_usage.
InsertingScripts == MainScripts \cup {"example_usage"}

\* C22: every identifier that a record inserted by a run of one of these
\* scripts names in a reference is that of a record which the same run
\* inserted earlier and which is still in the store.
C22_ReferencesResolveAtInsert ==
    [][ script' \in InsertingScripts =>
            \A o \in objects' \ objects : \A r \in o.refs :
                \E a \in objects : a.id = r[2] /\ a.id \notin Ids(snap.objects)
      ]_vars

\* test_schema inserted its event, which names the entity, the strategy and
\* the insight the run inserted before it.
C22_Witness ==
    /\ script = "test_schema"
    /\ \E o \in objects :
          /\ o.coll = "Event"
          /\ o.id = run.ids["Event"]
          /\ {r[2] : r \in o.refs} = {run.ids["Entity"], run.ids["Strategy"], run.ids["Insight"]}
          /\ Cardinality(o.refs) = 3

\* ---------------------------------------------------------------- C23
\* C23: when prepare_entity_vector raises at item k of a
\* batch_insert_entities call, the items before k are the only ones handed
\* to the batch, no record of item k or of a later item is stored, the call
\* raises, and no identifiers are returned.
C23_BatchAbortsOnFirstFailure ==
    [][ (/\ lastCall'.fn = "batch_insert_entities"
         /\ lastCall'.raised \notin {"none", "ConnectionError"}) =>
            LET items == lastCall'.args[1]
                k     == lastCall'.at
            IN  /\ k \in 1..Len(items)
                /\ nextId' - nextId = k - 1
                /\ \A o \in objects' \ objects :
                      /\ o.id - nextId + 1 \in 1..(k - 1)
                      /\ o.props = items[o.id - nextId + 1]
                /\ lastCall'.result = 0
      ]_vars

\* The first of two items failed: the call raised and nothing was stored.
C23_Witness ==
    /\ lastCall.fn = "batch_insert_entities"
    /\ lastCall.raised = "RuntimeError"
    /\ Len(lastCall.args[1]) = 2
    /\ lastCall.at = 1
    /\ objects = snap.objects

\* ---------------------------------------------------------------- C24
\* C24: whichever of the two schema scripts created a collection, its
\* properties with their data types and its references with their target
\* collections are those that each of the two scripts defines for it.
C24_SameShape ==
    \A c \in Collections :
        schema[c] \in SchemaScripts =>
            \A s \in SchemaScripts :
                /\ Config(schema, c).props = CollectionDef(s, c).props
                /\ Config(schema, c).refs = CollectionDef(s, c).refs

\* All five collections exist, Insight created by the auto-vectorizing
\* script and another collection by the manual one.
C24_Witness ==
    /\ \A c \in Collections : schema[c] \in SchemaScripts
    /\ schema["Insight"] = "create_schema_with_vectorizer"
    /\ schema["Entity"] = "create_schema"

\* ---------------------------------------------------------------- C25
ManualVectorScripts == {"create_schema", "test_schema", "example_usage", "quick_reference"}

\* C25: a near_text search or an insert without a vector goes only to a
\* collection that the auto-vectorizing script created, and every insert of
\* a manual-vector script passes a vector.
C25_VectorlessOnlyOnAutoSchema ==
    \A e \in storeLog :
        /\ (e.op = "near_text" \/ (e.op \in {"insert", "batch_add"} /\ e.src = "none")) =>
              schema[e.coll] = "create_schema_with_vectorizer"
        /\ (e.script \in ManualVectorScripts /\ e.op \in {"insert", "batch_add"}) =>
              e.src # "none"

\* ---------------------------------------------------------------- C26
\* The scripts whose main opens a store connection.
ConnectingScripts == MainScripts \cup {"example_usage"}

\* C26: in a run of a main that opened a connection, the connection is
\* closed by the step that ends the run and by no other, a run never ends
\* with it open, and after it is closed the run touches the store no more.
C26_ClosedOnceOnEveryExit ==
    [][ script' \in ConnectingScripts =>
            /\ conn' \in {0, 1}
            /\ pc' = "done" => conn' = 0
            /\ (runs' = runs /\ conn' < conn) =>
                  (run.connected /\ conn = 1 /\ pc' = "done")
            /\ (runs' = runs /\ run.connected /\ conn = 0) =>
                  UNCHANGED <<schema, objects, storeLog>>
      ]_vars

\* ---------------------------------------------------------------- C27
\* C27: a run of a schema script whose validation tests returned True (main
\* goes on to return 0) found, in Test 6, an insight with its related
\* entity expanded.
C27_TrueOnlyIfReferenceQueryPassed ==
    (script \in SchemaScripts /\ pc = "done" /\ rc = 0) => run.ref_query = "linked"

\* ---------------------------------------------------------------- C28
\* The scripts whose test function inserts records and cleans them up.
TestingScripts == SchemaScripts \cup {"test_schema"}

\* The run ended by a return of its test function (True or False), not by
\* an exception (of a store call that failed, or of a print).
TestReturned ==
    /\ script \in TestingScripts
    /\ pc = "done"
    /\ run.tested
    /\ ~run.faulted
    /\ ~run.key_error

\* C28: when the test function of a run has returned, the store holds the
\* records it held when the run started.
C28_TestsLeaveNoRecords ==
    TestReturned => objects = snap.objects

\* ---------------------------------------------------------------- C29
\* C29: a call of generate_google_embedding or generate_query_embedding that
\* fails because the key is missing or the vector has the wrong length does
\* not raise the error kind of a failed service call (RuntimeError), and
\* ImportError is raised exactly when the client library is missing.
C29_ConfigurationErrorsDistinct ==
    lastCall.fn \in {"generate_google_embedding", "generate_query_embedding"} =>
        /\ lastCall.out.cause \in {"ValueError: no key", "ValueError: length"} =>
              lastCall.out.raised \notin {"none", "RuntimeError"}
        /\ lastCall.out.raised = "ImportError" <=> ~env.genai
====
